---------------------------- MODULE Spec2Model ----------------------------
(***************************************************************************)
(* Model of the data profiling and chart-recommendation engine             *)
(* (useDataAnalyzer): value type detection, field profiling, structure     *)
(* detectors, the recommendation rule battery, CSV/JSON ingestion and the  *)
(* analyzer's reactive state (rawData, analysis, isAnalyzing, error).      *)
(*                                                                         *)
(* Representation.                                                         *)
(*  - A JavaScript value is a tagged record: Null, Undef, NaN, Num(n),     *)
(*    Str(s), Bool(b), DateObj(valid), Arr(seq), Obj(pairs); each kind     *)
(*    keeps its payload under a field name of its own.                     *)
(*  - A number is held in hundredths (Num(150) is 1.5), so the inputs of   *)
(*    the model are the numbers with at most two fractional digits.        *)
(*  - A string value is a sequence of characters, so that trim, the        *)
(*    regular expressions, Number(), split and String() are computed       *)
(*    character by character.  Property names are such sequences too.      *)
(*  - An object is the sequence of its <<key, value>> pairs in property    *)
(*    (insertion) order.                                                   *)
(***************************************************************************)
EXTENDS Integers, Sequences, FiniteSets, TLC

VARIABLES
    rawData,      \* ref rawData: the rows (or the structure) last loaded
    analysis,     \* ref analysis: DataAnalysis or NoAnalysis (null)
    isAnalyzing,  \* ref isAnalyzing
    error,        \* ref error: NoError (null) or a message
    reading,      \* the loadFile calls awaiting file.text(), in start order
    legacyDate,   \* whether Date.parse's implementation-defined fallback accepts
    call,         \* the operation applied last and its input
    ret           \* what that operation returned / how it ended

vars == <<rawData, analysis, isAnalyzing, error, reading, legacyDate, call, ret>>

-----------------------------------------------------------------------------
(* JavaScript values *)

\* numbers are held in hundredths
Scale == 10 * 10

Null == [t |-> "null"]
Undef == [t |-> "undef"]
NaN == [t |-> "nan"]
Num(n) == [t |-> "num", n |-> n]
Whole(n) == [t |-> "num", n |-> n * Scale]
Str(s) == [t |-> "str", s |-> s]
Bool(b) == [t |-> "bool", b |-> b]
DateObj(ok) == [t |-> "date", ok |-> ok]
Arr(s) == [t |-> "arr", a |-> s]
Obj(ps) == [t |-> "obj", o |-> ps]
\* an error message held by the error ref
Msg(m) == [t |-> "msg", m |-> m]

IsNum(x) == x.t = "num"
IsStr(x) == x.t = "str"
IsArr(x) == x.t = "arr"
IsObj(x) == x.t = "obj"

\* typeof x === 'number' (NaN is a number to typeof).
TypeofNumber(x) == x.t \in {"num", "nan"}
\* typeof x === 'object' && x !== null.
IsObjectLike(x) == x.t \in {"obj", "arr", "date"}

Min(S) == CHOOSE m \in S : \A n \in S : m <= n
Max(S) == CHOOSE m \in S : \A n \in S : m >= n

RECURSIVE Concat(_)
Concat(ss) == IF ss = <<>> THEN <<>> ELSE Head(ss) \o Concat(Tail(ss))

RECURSIVE Join(_)
\* the characters of s as one property name
Join(s) == IF s = <<>> THEN "" ELSE Head(s) \o Join(Tail(s))

SelectIdx(s, P(_)) == {i \in 1..Len(s) : P(s[i])}

-----------------------------------------------------------------------------
(* Characters and the string built-ins *)

Digits == {"0", "1", "2", "3", "4", "5", "6", "7", "8", "9"}
IsDigit(c) == c \in Digits
DigitVal(c) ==
    CASE c = "0" -> 0 [] c = "1" -> 1 [] c = "2" -> 2 [] c = "3" -> 3
      [] c = "4" -> 4 [] c = "5" -> 5 [] c = "6" -> 6 [] c = "7" -> 7
      [] c = "8" -> 8 [] c = "9" -> 9
DigitChar(d) == <<"0", "1", "2", "3", "4", "5", "6", "7", "8", "9">>[d + 1]

WhiteSpace == {" ", "\t", "\r", "\n"}
IsWS(c) == c \in WhiteSpace

\* String.prototype.trim
Trim(s) ==
    LET keep == {i \in 1..Len(s) : ~IsWS(s[i])}
    IN  IF keep = {} THEN <<>> ELSE SubSeq(s, Min(keep), Max(keep))

\* every character of s[i..j] is a digit (and the range lies in s)
DigitsAt(s, i, j) == j <= Len(s) /\ \A k \in i..j : IsDigit(s[k])
CharAt(s, i, c) == i <= Len(s) /\ s[i] = c

RECURSIVE DigitsValue(_)
\* the value of a run of decimal digits
DigitsValue(s) ==
    IF s = <<>> THEN 0 ELSE DigitsValue(SubSeq(s, 1, Len(s) - 1)) * 10 + DigitVal(s[Len(s)])

\* One or two leading fractional digits in hundredths.
FracValue(f) ==
    IF f = <<>> THEN 0
    ELSE IF Len(f) = 1 THEN DigitVal(f[1]) * 10
    ELSE DigitVal(f[1]) * 10 + DigitVal(f[2])

\* The parts of a trimmed numeric literal: sign, integer digits, fraction digits.
NumParts(t) ==
    LET signed == t # <<>> /\ t[1] \in {"+", "-"}
        u == IF signed THEN Tail(t) ELSE t
        dots == {i \in 1..Len(u) : u[i] = "."}
    IN  [neg |-> signed /\ t[1] = "-",
         ip |-> IF dots = {} THEN u ELSE SubSeq(u, 1, Min(dots) - 1),
         fp |-> IF dots = {} THEN <<>> ELSE SubSeq(u, Min(dots) + 1, Len(u))]

\* !isNaN(Number(s)) for a string: StringToNumber accepts the empty string and
\* the decimal literals [sign] digits [. digits] | [sign] . digits.
\* (The model's alphabets hold no exponent, radix or Infinity letters.)
StringIsNumber(s) ==
    LET t == Trim(s)
        p == NumParts(t)
    IN  \/ t = <<>>
        \/ /\ DigitsAt(p.ip, 1, Len(p.ip))
           /\ DigitsAt(p.fp, 1, Len(p.fp))
           /\ Len(p.ip) + Len(p.fp) > 0

\* Number(s) for a string; the empty string is 0.
NumberOfString(s) ==
    LET t == Trim(s)
        p == NumParts(t)
        mag == DigitsValue(p.ip) * Scale + FracValue(p.fp)
    IN  IF ~StringIsNumber(s) THEN NaN
        ELSE IF t = <<>> THEN Num(0)
        ELSE IF p.neg THEN Num(0 - mag) ELSE Num(mag)

RECURSIVE NatToChars(_)
NatToChars(n) ==
    IF n < 10 THEN <<DigitChar(n)>> ELSE NatToChars(n \div 10) \o <<DigitChar(n % 10)>>

\* String(n) for a number: shortest decimal form, no trailing zeros.
NumToChars(n) ==
    LET a == IF n < 0 THEN 0 - n ELSE n
        ip == NatToChars(a \div Scale)
        f == a % Scale
        fp == IF f = 0 THEN <<>>
              ELSE IF f % 10 = 0 THEN <<".", DigitChar(f \div 10)>>
              ELSE <<".", DigitChar(f \div 10), DigitChar(f % 10)>>
    IN  (IF n < 0 THEN <<"-">> ELSE <<>>) \o ip \o fp

\* String(v) for the values a field holds
StringOf(x) ==
    CASE x.t = "num" -> NumToChars(x.n)
      [] x.t = "str" -> x.s
      [] x.t = "nan" -> <<"N", "a", "N">>
      [] x.t = "null" -> <<"n", "u", "l", "l">>
      [] x.t = "undef" -> <<"u", "n", "d", "e", "f", "i", "n", "e", "d">>
      [] x.t = "bool" -> IF x.b THEN <<"t", "r", "u", "e">> ELSE <<"f", "a", "l", "s", "e">>
      [] OTHER -> <<"[", "o", "b", "j", "e", "c", "t", "]">>

\* Number(v): ToNumber
NumberOf(x) ==
    CASE x.t = "num" -> x
      [] x.t = "str" -> NumberOfString(x.s)
      [] x.t = "null" -> Num(0)
      [] x.t = "bool" -> IF x.b THEN Whole(1) ELSE Num(0)
      [] OTHER -> NaN

-----------------------------------------------------------------------------
(* detectValueType *)

Lower(c) ==
    CASE c = "J" -> "j" [] c = "A" -> "a" [] c = "N" -> "n" [] c = "F" -> "f"
      [] c = "E" -> "e" [] c = "B" -> "b" [] c = "M" -> "m" [] c = "R" -> "r"
      [] c = "P" -> "p" [] c = "Y" -> "y" [] c = "U" -> "u" [] c = "L" -> "l"
      [] c = "G" -> "g" [] c = "S" -> "s" [] c = "O" -> "o" [] c = "C" -> "c"
      [] c = "T" -> "t" [] c = "V" -> "v" [] c = "D" -> "d" [] c = "K" -> "k"
      [] OTHER -> c

MonthNames ==
    { <<"j", "a", "n">>, <<"f", "e", "b">>, <<"m", "a", "r">>, <<"a", "p", "r">>,
      <<"m", "a", "y">>, <<"j", "u", "n">>, <<"j", "u", "l">>, <<"a", "u", "g">>,
      <<"s", "e", "p">>, <<"o", "c", "t">>, <<"n", "o", "v">>, <<"d", "e", "c">> }

\* ^\d{4}<sep>\d{2}<sep>\d{2} as a prefix of s
DatePrefix(s, sep) ==
    /\ Len(s) >= 10
    /\ DigitsAt(s, 1, 4) /\ s[5] = sep /\ DigitsAt(s, 6, 7) /\ s[8] = sep
    /\ DigitsAt(s, 9, 10)

\* \d{2}:\d{2} at position i of s
TimeAt(s, i) ==
    /\ Len(s) >= i + 4
    /\ DigitsAt(s, i, i + 1) /\ s[i + 2] = ":" /\ DigitsAt(s, i + 3, i + 4)

\* datePatterns, in the order of the list
PatIsoDate(s) == Len(s) = 10 /\ DatePrefix(s, "-")
PatSlashDate(s) == Len(s) = 10 /\ DatePrefix(s, "/")
PatTime(s) ==
    \/ Len(s) = 5 /\ TimeAt(s, 1)
    \/ Len(s) = 8 /\ TimeAt(s, 1) /\ s[6] = ":" /\ DigitsAt(s, 7, 8)
PatIsoDateTime(s) == DatePrefix(s, "-") /\ CharAt(s, 11, "T") /\ TimeAt(s, 12)
PatSpaceDateTime(s) == DatePrefix(s, "-") /\ Len(s) >= 11 /\ IsWS(s[11]) /\ TimeAt(s, 12)
PatMonthName(s) == Len(s) >= 3 /\ <<Lower(s[1]), Lower(s[2]), Lower(s[3])>> \in MonthNames

MatchesDatePattern(s) ==
    \/ PatIsoDate(s) \/ PatSlashDate(s) \/ PatTime(s)
    \/ PatIsoDateTime(s) \/ PatSpaceDateTime(s) \/ PatMonthName(s)

\* /^\d+$/
PurelyDigits(s) == s # <<>> /\ DigitsAt(s, 1, Len(s))

\* !isNaN(Date.parse(s)).  A string in the ECMAScript year-month form YYYY-MM is
\* accepted when its month is 01..12 and rejected otherwise; for every other
\* string the answer is the engine's implementation-defined fallback, fb.
\* (The full date and date-time forms are matched by datePatterns before
\* Date.parse is reached.)
DateParses(s, fb) ==
    IF Len(s) = 7 /\ DigitsAt(s, 1, 4) /\ s[5] = "-" /\ DigitsAt(s, 6, 7)
    THEN DigitsValue(SubSeq(s, 6, 7)) \in 1..12
    ELSE fb

\* DetectString with Date.parse consulted first and without the digits guard
DetectStringDateFirst(s, fb) ==
    LET trimmed == Trim(s)
    IN  IF Len(trimmed) > 6 /\ DateParses(trimmed, fb) THEN "temporal"
        ELSE IF StringIsNumber(trimmed) /\ trimmed # <<>> THEN "numerical"
        ELSE IF MatchesDatePattern(trimmed) THEN "temporal"
        ELSE "categorical"

DetectString(s, fb) ==
    LET trimmed == Trim(s)
        numIsNaN == ~StringIsNumber(trimmed)
    IN  IF ~numIsNaN /\ trimmed # <<>> THEN "numerical"
        ELSE IF MatchesDatePattern(trimmed) THEN "temporal"
        ELSE IF Len(trimmed) > 6 /\ DateParses(trimmed, fb) /\ ~PurelyDigits(trimmed)
             THEN "temporal"
        ELSE "categorical"

DetectValueType(value, fb) ==
    IF value = Null \/ value = Undef \/ value = Str(<<>>) THEN "unknown"
    ELSE IF TypeofNumber(value) /\ value # NaN THEN "numerical"
    ELSE IF IsStr(value) THEN DetectString(value.s, fb)
    ELSE IF value.t = "date" /\ value.ok THEN "temporal"
    ELSE "unknown"

-----------------------------------------------------------------------------
(* analyzeField *)

\* the null test without the empty string
IsNullishNoEmpty(v) == v = Null \/ v = Undef

\* value === null || value === undefined || value === ''
IsNullish(v) == v = Null \/ v = Undef \/ v = Str(<<>>)

\* Object.entries(typeCount): the keys in the order of the literal
TypeOrder == <<"numerical", "categorical", "temporal", "unknown">>

\* The loop over typeCount with >= in place of >
DominantTypeGE(typeCount) ==
    LET F[k \in 0..Len(TypeOrder)] ==
            IF k = 0 THEN [dominantType |-> "unknown", maxCount |-> 0]
            ELSE LET prev == F[k - 1]
                     type == TypeOrder[k]
                 IN  IF typeCount[type] >= prev.maxCount /\ type # "unknown"
                     THEN [dominantType |-> type, maxCount |-> typeCount[type]]
                     ELSE prev
    IN  F[Len(TypeOrder)].dominantType

\* let dominantType = 'unknown'; let maxCount = 0;
\* for (const [type, count] of Object.entries(typeCount))
\*   if (count > maxCount && type !== 'unknown') { maxCount = count; dominantType = type }
DominantType(typeCount) ==
    LET F[k \in 0..Len(TypeOrder)] ==
            IF k = 0 THEN [dominantType |-> "unknown", maxCount |-> 0]
            ELSE LET prev == F[k - 1]
                     type == TypeOrder[k]
                 IN  IF typeCount[type] > prev.maxCount /\ type # "unknown"
                     THEN [dominantType |-> type, maxCount |-> typeCount[type]]
                     ELSE prev
    IN  F[Len(TypeOrder)].dominantType

\* the percentage test with the lower bound forgotten
IsPercentageRangeNoMin(min, max) == max <= 100 * Scale

\* isPercentage = (min >= 0 && max <= 100) || (min >= 0 && max <= 1)
IsPercentageRange(min, max) ==
    (min >= 0 /\ max <= 100 * Scale) \/ (min >= 0 /\ max <= 1 * Scale)

Slice(s, n) == SubSeq(s, 1, IF Len(s) < n THEN Len(s) ELSE n)

AnalyzeField(name, values, fb) ==
    LET present == SelectSeq(values, LAMBDA v : ~IsNullish(v))
        nullCount == Len(values) - Len(present)
        typeCount == [ty \in {"numerical", "categorical", "temporal", "unknown"} |->
                        Cardinality({i \in 1..Len(present) :
                                        DetectValueType(present[i], fb) = ty})]
        validValues == SelectSeq(present, LAMBDA v : DetectValueType(v, fb) # "unknown")
        dominantType == DominantType(typeCount)
        uniqueValues == {StringOf(validValues[i]) : i \in 1..Len(validValues)}
        numbers == {NumberOf(validValues[i]).n :
                        i \in {j \in 1..Len(validValues) : NumberOf(validValues[j]) # NaN}}
        analysed == dominantType = "numerical" /\ numbers # {}
    IN  [name |-> name,
         type |-> dominantType,
         sampleValues |-> Slice(validValues, 5),
         uniqueCount |-> Cardinality(uniqueValues),
         nullCount |-> nullCount,
         min |-> IF analysed THEN Num(Min(numbers)) ELSE Undef,
         max |-> IF analysed THEN Num(Max(numbers)) ELSE Undef,
         isPercentage |-> analysed /\ IsPercentageRange(Min(numbers), Max(numbers))]

-----------------------------------------------------------------------------
(* generateRecommendations.  A ChartRecommendation keeps its type, confidence, *)
(* bindings and fields; an optional binding is None or Some(value).  The       *)
(* title and description texts are left out.                                   *)

None == <<>>
Some(x) == <<x>>

Names(ps) == [i \in 1..Len(ps) |-> ps[i].name]

Rec(type, confidence, fields) ==
    [type |-> type, confidence |-> confidence,
     xAxis |-> None, yAxis |-> None, category |-> None, value |-> None,
     source |-> None, target |-> None, fields |-> fields]

AxisRec(type, confidence, x, ys) ==
    [Rec(type, confidence, <<x>> \o ys) EXCEPT !.xAxis = Some(x), !.yAxis = Some(ys)]

CategoryRec(type, confidence, c, v) ==
    [Rec(type, confidence, <<c, v>>) EXCEPT !.category = Some(c), !.value = Some(v)]

ValueRec(type, confidence, v) ==
    [Rec(type, confidence, <<v>>) EXCEPT !.value = Some(v)]

\* rule 1 with area pushed before line
RuleTrendAreaFirst(num, cat, tem, profiles) ==
    IF Len(tem) >= 1 /\ Len(num) >= 1
    THEN LET temporal == tem[1]
             numerical == Slice(num, 3)
         IN  << AxisRec("area", "high", temporal.name, <<numerical[1].name>>),
                AxisRec("line", "high", temporal.name, Names(numerical)),
                AxisRec("stepLine", "medium", temporal.name, <<numerical[1].name>>) >>
    ELSE <<>>

\* 1. temporal + numerical: line, area, stepLine
RuleTrend(num, cat, tem, profiles) ==
    IF Len(tem) >= 1 /\ Len(num) >= 1
    THEN LET temporal == tem[1]
             numerical == Slice(num, 3)
         IN  <<AxisRec("line", "high", temporal.name, Names(numerical))>>
             \o (IF Len(numerical) >= 1
                 THEN << AxisRec("area", "high", temporal.name, <<numerical[1].name>>),
                         AxisRec("stepLine", "medium", temporal.name, <<numerical[1].name>>) >>
                 ELSE <<>>)
    ELSE <<>>

\* rule 2 with the limit the source's comment names (< 20)
RuleBarUnder20(num, cat, tem, profiles) ==
    IF Len(cat) >= 1 /\ Len(num) >= 1
    THEN LET categorical == cat[1]
             numerical == num[1]
         IN  IF categorical.uniqueCount < 20
             THEN <<CategoryRec("bar", IF categorical.uniqueCount <= 10 THEN "high" ELSE "medium",
                                categorical.name, numerical.name)>>
                  \o (IF categorical.uniqueCount <= 8
                      THEN <<CategoryRec("pie", "medium", categorical.name, numerical.name)>>
                      ELSE <<>>)
             ELSE <<>>
    ELSE <<>>

\* 2. categorical + numerical: bar, pie
RuleBar(num, cat, tem, profiles) ==
    IF Len(cat) >= 1 /\ Len(num) >= 1
    THEN LET categorical == cat[1]
             numerical == num[1]
         IN  IF categorical.uniqueCount <= 20
             THEN <<CategoryRec("bar", IF categorical.uniqueCount <= 10 THEN "high" ELSE "medium",
                                categorical.name, numerical.name)>>
                  \o (IF categorical.uniqueCount <= 8
                      THEN <<CategoryRec("pie", "medium", categorical.name, numerical.name)>>
                      ELSE <<>>)
             ELSE <<>>
    ELSE <<>>

\* rule 3 with radialBar for percentages only
RuleMetricPercentOnly(num, cat, tem, profiles) ==
    IF Len(num) >= 1
    THEN LET numerical == num[1]
         IN  (IF numerical.isPercentage
              THEN <<ValueRec("radialBar", "high", numerical.name)>>
              ELSE <<>>)
             \o <<ValueRec("metric", "medium", numerical.name)>>
    ELSE <<>>

\* 3. a numerical field: radialBar, metric
RuleMetric(num, cat, tem, profiles) ==
    IF Len(num) >= 1
    THEN LET numerical == num[1]
         IN  (IF numerical.isPercentage \/ numerical.uniqueCount = 1
              THEN <<ValueRec("radialBar", IF numerical.isPercentage THEN "high" ELSE "medium",
                              numerical.name)>>
              ELSE <<>>)
             \o <<ValueRec("metric", "medium", numerical.name)>>
    ELSE <<>>

\* rule 4 with the earliest temporal or categorical field as x-axis
RuleStackedEarliest(num, cat, tem, profiles) ==
    IF Len(num) >= 2 /\ (Len(tem) >= 1 \/ Len(cat) >= 1)
    THEN LET xField == SelectSeq(profiles, LAMBDA p : p.type \in {"temporal", "categorical"})[1]
         IN  <<AxisRec("stackedBar", "medium", xField.name, Names(Slice(num, 3)))>>
    ELSE <<>>

\* 4. several numerical fields over a temporal or categorical one: stackedBar
RuleStacked(num, cat, tem, profiles) ==
    IF Len(num) >= 2 /\ (Len(tem) >= 1 \/ Len(cat) >= 1)
    THEN LET xField == IF Len(tem) >= 1 THEN tem[1] ELSE cat[1]
         IN  <<AxisRec("stackedBar", "medium", xField.name, Names(Slice(num, 3)))>>
    ELSE <<>>

\* 5. two numerical fields: scatter, bubble
RuleScatter(num, cat, tem, profiles) ==
    IF Len(num) >= 2
    THEN LET x == num[1]
             y == num[2]
         IN  <<AxisRec("scatter", "medium", x.name, <<y.name>>)>>
             \o (IF Len(num) >= 3
                 THEN <<AxisRec("bubble", "medium", x.name, <<y.name, num[3].name>>)>>
                 ELSE <<>>)
    ELSE <<>>

\* 6. categorical + numerical: dotPlot
RuleDotPlot(num, cat, tem, profiles) ==
    IF Len(cat) >= 1 /\ Len(num) >= 1
    THEN LET categorical == cat[1]
             numerical == num[1]
         IN  IF categorical.uniqueCount >= 5 /\ categorical.uniqueCount <= 30
             THEN <<AxisRec("dotPlot", "low", categorical.name, <<numerical.name>>)>>
             ELSE <<>>
    ELSE <<>>

\* rule 7 with the value field left out of fields
RuleHeatmapShortFields(num, cat, tem, profiles) ==
    IF Len(tem) >= 1 /\ Len(cat) >= 1 /\ Len(num) >= 1
    THEN <<[Rec("heatmap", "medium", <<tem[1].name, cat[1].name>>)
              EXCEPT !.xAxis = Some(tem[1].name), !.yAxis = Some(<<cat[1].name>>),
                     !.value = Some(num[1].name)]>>
    ELSE <<>>

\* 7. temporal + categorical + numerical: heatmap
RuleHeatmap(num, cat, tem, profiles) ==
    IF Len(tem) >= 1 /\ Len(cat) >= 1 /\ Len(num) >= 1
    THEN <<[Rec("heatmap", "medium", <<tem[1].name, cat[1].name, num[1].name>>)
              EXCEPT !.xAxis = Some(tem[1].name), !.yAxis = Some(<<cat[1].name>>),
                     !.value = Some(num[1].name)]>>
    ELSE <<>>

\* 8. categorical + several numerical: radar
RuleRadar(num, cat, tem, profiles) ==
    IF Len(cat) >= 1 /\ Len(num) >= 2
    THEN LET categorical == cat[1]
         IN  IF categorical.uniqueCount >= 3
             THEN <<AxisRec("radar", "medium", categorical.name, Names(Slice(num, 4)))>>
             ELSE <<>>
    ELSE <<>>

\* 9. two categorical + numerical: sankey
RuleSankey(num, cat, tem, profiles) ==
    IF Len(cat) >= 2 /\ Len(num) >= 1
    THEN <<[Rec("sankey", "medium", <<cat[1].name, cat[2].name, num[1].name>>)
              EXCEPT !.source = Some(cat[1].name), !.target = Some(cat[2].name),
                     !.value = Some(num[1].name)]>>
    ELSE <<>>

\* rule 10 under the limit of rule 2
RuleTreemapFewCategories(num, cat, tem, profiles) ==
    IF Len(cat) >= 1 /\ Len(num) >= 1 /\ cat[1].uniqueCount <= 20
    THEN <<CategoryRec("treemap", "medium", cat[1].name, num[1].name)>>
    ELSE <<>>

\* 10. categorical + numerical: treemap
RuleTreemap(num, cat, tem, profiles) ==
    IF Len(cat) >= 1 /\ Len(num) >= 1
    THEN <<CategoryRec("treemap", "medium", cat[1].name, num[1].name)>>
    ELSE <<>>

\* 11. temporal + categorical: activity
RuleActivity(num, cat, tem, profiles) ==
    IF Len(tem) >= 1 /\ Len(cat) >= 1
    THEN <<Rec("activity", "low", <<tem[1].name, cat[1].name>>)>>
    ELSE <<>>

\* rule 12 applied from two fields on
RuleDataGridTwo(num, cat, tem, profiles) ==
    IF Len(profiles) >= 2
    THEN <<Rec("dataGrid", "low", Names(Slice(profiles, 6)))>>
    ELSE <<>>

\* rule 12 listing every field
RuleDataGridAllFields(num, cat, tem, profiles) ==
    IF Len(profiles) >= 3
    THEN <<Rec("dataGrid", "low", Names(profiles))>>
    ELSE <<>>

\* 12. three or more fields: dataGrid
RuleDataGrid(num, cat, tem, profiles) ==
    IF Len(profiles) >= 3
    THEN <<Rec("dataGrid", "low", Names(Slice(profiles, 6)))>>
    ELSE <<>>

\* a stable sort of the recommendations by confidence, high first
SortByConfidence(recs) ==
    LET Of(c) == SelectSeq(recs, LAMBDA r : r.confidence = c)
    IN  Of("high") \o Of("medium") \o Of("low")

\* the rules' output, in push order
RulesInOrder(num, cat, tem, profiles) ==
    RuleTrend(num, cat, tem, profiles) \o RuleBar(num, cat, tem, profiles)
        \o RuleMetric(num, cat, tem, profiles) \o RuleStacked(num, cat, tem, profiles)
        \o RuleScatter(num, cat, tem, profiles) \o RuleDotPlot(num, cat, tem, profiles)
        \o RuleHeatmap(num, cat, tem, profiles) \o RuleRadar(num, cat, tem, profiles)
        \o RuleSankey(num, cat, tem, profiles) \o RuleTreemap(num, cat, tem, profiles)
        \o RuleActivity(num, cat, tem, profiles) \o RuleDataGrid(num, cat, tem, profiles)

\* generateRecommendations followed by a sort on confidence
GenerateRecommendationsSorted(profiles) ==
    SortByConfidence(RulesInOrder(SelectSeq(profiles, LAMBDA p : p.type = "numerical"),
                                  SelectSeq(profiles, LAMBDA p : p.type = "categorical"),
                                  SelectSeq(profiles, LAMBDA p : p.type = "temporal"),
                                  profiles))

GenerateRecommendations(profiles) ==
    LET numericalFields == SelectSeq(profiles, LAMBDA p : p.type = "numerical")
        categoricalFields == SelectSeq(profiles, LAMBDA p : p.type = "categorical")
        temporalFields == SelectSeq(profiles, LAMBDA p : p.type = "temporal")
    IN  RulesInOrder(numericalFields, categoricalFields, temporalFields, profiles)

-----------------------------------------------------------------------------
(* Objects: property access and enumeration *)

\* a canonical array index: such property names are enumerated first, ascending
IsIndexKey(k) == PurelyDigits(k) /\ (Len(k) = 1 \/ k[1] # "0")

HasOwn(o, k) == \E i \in 1..Len(o.o) : o.o[i][1] = k

\* o[k] for an object
ObjGet(o, k) ==
    IF HasOwn(o, k) THEN o.o[CHOOSE i \in 1..Len(o.o) : o.o[i][1] = k][2] ELSE Undef

\* where a new property k goes in the property order of pairs
InsertAt(pairs, k) ==
    IF IsIndexKey(k)
    THEN 1 + Cardinality({i \in 1..Len(pairs) :
                            IsIndexKey(pairs[i][1]) /\ DigitsValue(pairs[i][1]) < DigitsValue(k)})
    ELSE Len(pairs) + 1

\* o[k] = v
ObjSet(o, k, v) ==
    IF HasOwn(o, k)
    THEN Obj([i \in 1..Len(o.o) |-> IF o.o[i][1] = k THEN <<k, v>> ELSE o.o[i]])
    ELSE LET at == InsertAt(o.o, k)
         IN  Obj(SubSeq(o.o, 1, at - 1) \o <<(<<k, v>>)>> \o SubSeq(o.o, at, Len(o.o)))

IndexKeys(n) == [i \in 1..n |-> NatToChars(i - 1)]

\* Object.keys(x)
ObjectKeys(x) ==
    CASE x.t = "obj" -> [i \in 1..Len(x.o) |-> x.o[i][1]]
      [] x.t = "arr" -> IndexKeys(Len(x.a))
      [] x.t = "str" -> IndexKeys(Len(x.s))
      [] OTHER -> <<>>

\* Object.values(x) for an object
ObjectValues(x) == [i \in 1..Len(x.o) |-> x.o[i][2]]

\* reading x[k] throws a TypeError
GetThrows(x) == x = Null \/ x = Undef

\* x[k] when it does not throw
Get(x, k) ==
    CASE x.t = "obj" -> ObjGet(x, k)
      [] x.t = "arr" ->
            IF IsIndexKey(k) /\ DigitsValue(k) < Len(x.a) THEN x.a[DigitsValue(k) + 1] ELSE Undef
      [] x.t = "str" ->
            IF IsIndexKey(k) /\ DigitsValue(k) < Len(x.s) THEN Str(<<x.s[DigitsValue(k) + 1]>>)
            ELSE Undef
      [] OTHER -> Undef

\* 'k' in x throws a TypeError unless x is an object
InThrows(x) == ~IsObjectLike(x)

\* 'k' in x for an object or array
In(k, x) ==
    CASE x.t = "obj" -> HasOwn(x, k)
      [] x.t = "arr" -> IsIndexKey(k) /\ DigitsValue(k) < Len(x.a)
      [] OTHER -> FALSE

Thrown == [t |-> "throw", m |-> "TypeError"]

-----------------------------------------------------------------------------
(* analyzeData *)

EmptyAnalysis == [rowCount |-> 0, fieldProfiles |-> <<>>, recommendations |-> <<>>]

\* analyzeData that profiles a field over the first row only
AnalyzeDataFirstRow(data, fb) ==
    IF Len(data.a) = 0 THEN EmptyAnalysis
    ELSE LET first == IF data.a[1] = Null \/ data.a[1] = Undef THEN Obj(<<>>) ELSE data.a[1]
             fieldNames == ObjectKeys(first)
             Column(name) == <<Get(first, name)>>
             fieldProfiles == [i \in 1..Len(fieldNames) |->
                                  AnalyzeField(fieldNames[i], Column(fieldNames[i]), fb)]
         IN  IF fieldNames # <<>> /\ \E i \in 1..Len(data.a) : GetThrows(data.a[i])
             THEN Thrown
             ELSE [rowCount |-> Len(data.a),
                   fieldProfiles |-> fieldProfiles,
                   recommendations |-> GenerateRecommendations(fieldProfiles)]

\* analyzeData(data) for an array data: the DataAnalysis, or Thrown when reading
\* a field of a null row throws
AnalyzeData(data, fb) ==
    IF Len(data.a) = 0 THEN EmptyAnalysis
    ELSE LET first == IF data.a[1] = Null \/ data.a[1] = Undef THEN Obj(<<>>) ELSE data.a[1]
             fieldNames == ObjectKeys(first)
             Column(name) == [i \in 1..Len(data.a) |-> Get(data.a[i], name)]
             fieldProfiles == [i \in 1..Len(fieldNames) |->
                                  AnalyzeField(fieldNames[i], Column(fieldNames[i]), fb)]
         IN  IF fieldNames # <<>> /\ \E i \in 1..Len(data.a) : GetThrows(data.a[i])
             THEN Thrown
             ELSE [rowCount |-> Len(data.a),
                   fieldProfiles |-> fieldProfiles,
                   recommendations |-> GenerateRecommendations(fieldProfiles)]

-----------------------------------------------------------------------------
(* Property names and literals of the structure detectors *)

KX == <<"x">>
KY == <<"y">>
KType == <<"t", "y", "p", "e">>
KData == <<"d", "a", "t", "a">>
KName == <<"n", "a", "m", "e">>
KSamples == <<"s", "a", "m", "p", "l", "e", "s">>
KClusters == <<"c", "l", "u", "s", "t", "e", "r", "s">>
KValues == <<"v", "a", "l", "u", "e", "s">>
KChildren == <<"c", "h", "i", "l", "d", "r", "e", "n">>
SBoxPlot == <<"b", "o", "x", "P", "l", "o", "t">>
SCluster == <<"c", "l", "u", "s", "t", "e", "r">>
SClusterZh == <<"群", "集">>
SFiveNumbers == <<"[", "m", "i", "n", ",", " ", "Q", "1", ",", " ", "m", "e", "d", "i", "a", "n", ",", " ", "Q", "3", ",", " ", "m", "a", "x", "]">>
SRoot == <<"R", "o", "o", "t">>

NameKeys == << KName, <<"l", "a", "b", "e", "l">>, <<"i", "d">>, <<"t", "i", "t", "l", "e">>, <<"k", "e", "y">>, <<"t", "e", "x", "t">> >>
ChildrenKeys == << KChildren, <<"n", "o", "d", "e", "s">>, <<"i", "t", "e", "m", "s">>, <<"b", "r", "a", "n", "c", "h", "e", "s">>, <<"s", "u", "b", "t", "r", "e", "e">> >>

\* JavaScript truthiness
Truthy(x) ==
    CASE x.t = "null" -> FALSE
      [] x.t = "undef" -> FALSE
      [] x.t = "nan" -> FALSE
      [] x.t = "bool" -> x.b
      [] x.t = "num" -> x.n # 0
      [] x.t = "str" -> x.s # <<>>
      [] OTHER -> TRUE

\* Array.isArray(y) && y.length === 5 && y.every(v => typeof v === 'number')
FiveNumbers(y) == IsArr(y) /\ Len(y.a) = 5 /\ \A i \in 1..5 : TypeofNumber(y.a[i])

\* x.k for a property read that throws on null and undefined
Prop(x, k) == IF GetThrows(x) THEN Undef ELSE Get(x, k)

-----------------------------------------------------------------------------
(* Box-plot detector.  A detector answers "true", "false" or "throw". *)

IsBoxPlotStructure(data) ==
    IF ~IsArr(data) \/ Len(data.a) = 0 THEN "false"
    ELSE LET firstItem == data.a[1]
             seriesForm == Prop(firstItem, KType) = Str(SBoxPlot)
                               /\ IsArr(Prop(firstItem, KData))
             boxData == Prop(firstItem, KData).a
             firstBox == boxData[1]
             probed == seriesForm /\ Len(boxData) > 0 /\ Truthy(firstBox)
         IN  IF GetThrows(firstItem) THEN "throw"
             ELSE IF probed /\ InThrows(firstBox) THEN "throw"
             ELSE IF probed /\ In(KX, firstBox) /\ IsArr(Get(firstBox, KY))
                  THEN (IF FiveNumbers(Get(firstBox, KY)) THEN "true" ELSE "false")
             ELSE IF InThrows(firstItem) THEN "throw"
             ELSE IF In(KX, firstItem) /\ IsArr(Get(firstItem, KY))
                  THEN (IF FiveNumbers(Get(firstItem, KY)) THEN "true" ELSE "false")
             ELSE "false"

\* String(item.x || '')
CategoryOf(item) == IF Truthy(Get(item, KX)) THEN StringOf(Get(item, KX)) ELSE <<>>

\* analyzeBoxPlotStructure(data): categories and boxCount, or Thrown when an
\* entry is null
AnalyzeBoxPlotStructure(data) ==
    LET firstItem == data.a[1]
        seriesForm == Get(firstItem, KType) = Str(SBoxPlot) /\ IsArr(Get(firstItem, KData))
        boxes == IF seriesForm THEN Get(firstItem, KData).a ELSE data.a
    IN  IF \E i \in 1..Len(boxes) : GetThrows(boxes[i]) THEN Thrown
        ELSE [t |-> "box",
              categories |-> [i \in 1..Len(boxes) |-> CategoryOf(boxes[i])],
              boxCount |-> Len(boxes)]

-----------------------------------------------------------------------------
(* Admixture detector *)

Contains(s, sub) ==
    \E i \in 1..(Len(s) - Len(sub) + 1) : SubSeq(s, i, i + Len(sub) - 1) = sub

LowerCase(s) == [i \in 1..Len(s) |-> Lower(s[i])]

\* name.toLowerCase().includes('cluster') || ....includes('群集') || /^k\d+$/i
IsClusterName(name) ==
    LET n == LowerCase(name)
    IN  \/ Contains(n, SCluster)
        \/ Contains(n, SClusterZh)
        \/ Len(n) >= 2 /\ n[1] = "k" /\ DigitsAt(n, 2, Len(n))

AllNumbers(arr) == \A i \in 1..Len(arr.a) : TypeofNumber(arr.a[i])

\* format 1: { samples, clusters }
IsAdmixtureObject(data) ==
    /\ IsObj(data)
    /\ IsArr(ObjGet(data, KSamples)) /\ IsArr(ObjGet(data, KClusters))

AdmixtureObjectOk(data) ==
    LET samples == ObjGet(data, KSamples).a
        clusters == ObjGet(data, KClusters).a
    IN  /\ Len(samples) # 0 /\ \A i \in 1..Len(samples) : IsStr(samples[i])
        /\ Len(clusters) # 0
        /\ \A i \in 1..Len(clusters) :
              /\ IsObjectLike(clusters[i])
              /\ IsStr(Get(clusters[i], KName))
              /\ IsArr(Get(clusters[i], KValues))
              /\ AllNumbers(Get(clusters[i], KValues))

\* (item.data[i] || 0)
Cell(item, i) ==
    LET d == Get(item, KData).a
    IN  IF i <= Len(d) /\ d[i].t = "num" THEN d[i].n ELSE 0

RECURSIVE SumCells(_, _)
SumCells(items, i) ==
    IF items = <<>> THEN 0 ELSE Cell(Head(items), i) + SumCells(Tail(items), i)

Abs(n) == IF n < 0 THEN 0 - n ELSE n

\* the tolerances with their ends included
NearWholeInclusive(sum) == Abs(sum - 1 * Scale) <= 15 \/ Abs(sum - 100 * Scale) <= 10 * Scale

\* Math.abs(sum - 1) < 0.15 || Math.abs(sum - 100) < 10, in hundredths
NearWhole(sum) == Abs(sum - 1 * Scale) < 15 \/ Abs(sum - 100 * Scale) < 10 * Scale

\* format 2: [{ name, data }]
IsAdmixtureSeries(data) ==
    /\ IsArr(data) /\ Len(data.a) >= 2
    /\ LET items == data.a
           allHaveNameAndData ==
               \A i \in 1..Len(items) :
                   /\ IsObjectLike(items[i])
                   /\ IsStr(Get(items[i], KName))
                   /\ IsArr(Get(items[i], KData))
                   /\ Len(Get(items[i], KData).a) > 0
                   /\ AllNumbers(Get(items[i], KData))
           firstDataLength == Len(Get(items[1], KData).a)
           allSameLength ==
               \A i \in 1..Len(items) : Len(Get(items[i], KData).a) = firstDataLength
           hasClusterName ==
               \E i \in 1..Len(items) : IsClusterName(StringOf(Get(items[i], KName)))
           isProportionData ==
               \A i \in 1..firstDataLength : NearWhole(SumCells(items, i))
       IN  allHaveNameAndData /\ allSameLength /\ (hasClusterName \/ isProportionData)

IsAdmixtureStructure(data) ==
    IF IsAdmixtureObject(data) THEN AdmixtureObjectOk(data) ELSE IsAdmixtureSeries(data)

\* analyzeAdmixtureStructure(data), for data the detector accepts
AnalyzeAdmixtureStructure(data) ==
    IF IsAdmixtureObject(data)
    THEN LET clusters == ObjGet(data, KClusters).a
         IN  [sampleCount |-> Len(ObjGet(data, KSamples).a),
              clusterCount |-> Len(clusters),
              clusterNames |-> [i \in 1..Len(clusters) |-> Get(clusters[i], KName)],
              isSeriesFormat |-> FALSE]
    ELSE IF IsArr(data)
    THEN LET items == data.a
         IN  [sampleCount |-> IF items # <<>> /\ IsArr(Prop(items[1], KData))
                              THEN Len(Prop(items[1], KData).a) ELSE 0,
              clusterCount |-> Len(items),
              clusterNames |-> [i \in 1..Len(items) |-> Get(items[i], KName)],
              isSeriesFormat |-> TRUE]
    ELSE [sampleCount |-> 0, clusterCount |-> 0, clusterNames |-> <<>>,
          isSeriesFormat |-> FALSE]

-----------------------------------------------------------------------------
(* Tree detector *)

\* [keys].some(key => typeof obj[key] === 'string')
HasNameKey(obj) == \E i \in 1..Len(NameKeys) : IsStr(Get(obj, NameKeys[i]))

\* [keys].find(key => Array.isArray(obj[key])), as None or Some(key)
FindChildrenKey(obj) ==
    LET hits == {i \in 1..Len(ChildrenKeys) : IsArr(Get(obj, ChildrenKeys[i]))}
    IN  IF hits = {} THEN None ELSE Some(ChildrenKeys[Min(hits)])

IsTreeStructure(data) ==
    /\ IsObj(data)
    /\ HasNameKey(data)
    /\ FindChildrenKey(data) # None
    /\ LET children == Get(data, FindChildrenKey(data)[1]).a
       IN  /\ Len(children) > 0
           /\ \E i \in 1..Len(children) : IsObjectLike(children[i]) /\ HasNameKey(children[i])

RECURSIVE Traverse(_, _)
\* traverse(node, depth): the counts of the subtree at node
Traverse(node, depth) ==
    IF ~IsObj(node) THEN [nodeCount |-> 0, leafCount |-> 0, depth |-> 0]
    ELSE LET childrenKey == FindChildrenKey(node)
             children == IF childrenKey = None THEN <<>> ELSE Get(node, childrenKey[1]).a
             subs == [i \in 1..Len(children) |-> Traverse(children[i], depth + 1)]
             Sum[k \in 0..Len(subs)] ==
                 IF k = 0 THEN [nodeCount |-> 0, leafCount |-> 0, depth |-> depth]
                 ELSE [nodeCount |-> Sum[k - 1].nodeCount + subs[k].nodeCount,
                       leafCount |-> Sum[k - 1].leafCount + subs[k].leafCount,
                       depth |-> IF subs[k].depth > Sum[k - 1].depth
                                 THEN subs[k].depth ELSE Sum[k - 1].depth]
             below == Sum[Len(subs)]
         IN  [nodeCount |-> 1 + below.nodeCount,
              leafCount |-> IF children = <<>> THEN 1 ELSE below.leafCount,
              depth |-> below.depth]

\* analyzeTreeStructure with the root at depth 1
AnalyzeTreeStructureFromOne(data) == Traverse(data, 1)

AnalyzeTreeStructure(data) == Traverse(data, 0)

-----------------------------------------------------------------------------
(* parseCSV *)

RECURSIVE Split(_, _)
\* s.split(sep) for a one-character separator
Split(s, sep) ==
    LET at == {i \in 1..Len(s) : s[i] = sep}
    IN  IF at = {} THEN <<s>>
        ELSE <<SubSeq(s, 1, Min(at) - 1)>> \o Split(SubSeq(s, Min(at) + 1, Len(s)), sep)

IsQuote(c) == c = "\"" \/ c = "'"

\* s.replace(/^["']|["']$/g, '')
StripQuotes(s) ==
    LET a == IF s # <<>> /\ IsQuote(s[1]) THEN Tail(s) ELSE s
    IN  IF a # <<>> /\ IsQuote(a[Len(a)]) THEN SubSeq(a, 1, Len(a) - 1) ELSE a

\* line.split(',').map(v => v.trim().replace(/^["']|["']$/g, ''))
Cells(line) ==
    LET parts == Split(line, ",")
    IN  [i \in 1..Len(parts) |-> StripQuotes(Trim(parts[i]))]

\* the stored value of one cell: a number when Number(value) is not NaN and
\* value is not '', else the string; undefined when the line has no such cell
CellValue(values, index) ==
    IF index > Len(values) THEN Undef
    ELSE IF StringIsNumber(values[index]) /\ values[index] # <<>>
         THEN NumberOfString(values[index])
    ELSE Str(values[index])

\* the binding that keeps the first cell of a repeated header
RowOfFirstWins(headers, values) ==
    LET F[k \in 0..Len(headers)] ==
            IF k = 0 THEN Obj(<<>>)
            ELSE IF HasOwn(F[k - 1], headers[k]) THEN F[k - 1]
            ELSE ObjSet(F[k - 1], headers[k], CellValue(values, k))
    IN  F[Len(headers)]

\* headers.forEach((header, index) => { ...; row[header] = value })
RowOf(headers, values) ==
    LET F[k \in 0..Len(headers)] ==
            IF k = 0 THEN Obj(<<>>)
            ELSE ObjSet(F[k - 1], headers[k], CellValue(values, k))
    IN  F[Len(headers)]

ParseCSV(csvString) ==
    LET lines == Split(Trim(csvString), "\n")
        headers == Cells(lines[1])
    IN  IF Len(lines) < 2 THEN <<>>
        ELSE [i \in 1..(Len(lines) - 1) |-> RowOf(headers, Cells(lines[i + 1]))]

-----------------------------------------------------------------------------
(* loadJSON and loadCSV.  A load is one synchronous step; its outcome is the  *)
(* values of rawData, analysis and error when it returns (isAnalyzing is set  *)
(* to false by the finally clause on every path).                             *)

SyntheticProfile(name, type, sampleValues, uniqueCount) ==
    [name |-> name, type |-> type, sampleValues |-> sampleValues,
     uniqueCount |-> uniqueCount, nullCount |-> 0]

Outcome(raw, an, err) == [rawData |-> raw, analysis |-> an, error |-> err]

\* `${n} <word>`
Counted(n, word) == NatToChars(n) \o <<" ">> \o word

BoxPlotAnalysis(boxInfo) ==
    [rowCount |-> boxInfo.boxCount,
     fieldProfiles |->
        << SyntheticProfile(KX, "categorical",
                            [i \in 1..Len(Slice(boxInfo.categories, 5)) |->
                                Str(boxInfo.categories[i])],
                            boxInfo.boxCount),
           SyntheticProfile(KY, "numerical", <<Str(SFiveNumbers)>>, boxInfo.boxCount) >>,
     recommendations |->
        << Rec("boxPlot", "high", <<KX, KY>>), Rec("bar", "low", <<KX, KY>>) >>]

AdmixtureAnalysis(info) ==
    [rowCount |-> info.sampleCount,
     fieldProfiles |->
        << SyntheticProfile(KSamples, "categorical",
                            <<Str(Counted(info.sampleCount, <<"s", "a", "m", "p", "l", "e", "s">>))>>, info.sampleCount),
           SyntheticProfile(KClusters, "numerical", Slice(info.clusterNames, 3),
                            info.clusterCount) >>,
     recommendations |->
        << Rec("admixture", "high", <<KSamples, KClusters>>),
           Rec("stackedBar", "medium", <<KSamples, KClusters>>) >>]

\* ['name', 'label', 'id', 'title'].find(k => typeof obj[k] === 'string')
RootName(obj) ==
    LET hits == {i \in 1..4 : IsStr(Get(obj, NameKeys[i]))}
    IN  IF hits = {} THEN Str(SRoot) ELSE Get(obj, NameKeys[Min(hits)])

\* the tree analysis with the leaves as rows
TreeAnalysisLeafRows(obj, treeInfo) ==
    [rowCount |-> treeInfo.leafCount,
     fieldProfiles |->
        << SyntheticProfile(KName, "categorical", <<RootName(obj)>>, treeInfo.nodeCount),
           SyntheticProfile(KChildren, "categorical",
                            <<Str(Counted(treeInfo.leafCount, <<"l", "e", "a", "v", "e", "s">>))>>,
                            treeInfo.leafCount) >>,
     recommendations |->
        << Rec("phylogenetic", "high", <<KName, KChildren>>),
           Rec("treemap", "medium", <<KName, KChildren>>) >>,
     isTreeStructure |-> TRUE]

TreeAnalysis(obj, treeInfo) ==
    [rowCount |-> treeInfo.nodeCount,
     fieldProfiles |->
        << SyntheticProfile(KName, "categorical", <<RootName(obj)>>, treeInfo.nodeCount),
           SyntheticProfile(KChildren, "categorical",
                            <<Str(Counted(treeInfo.leafCount, <<"l", "e", "a", "v", "e", "s">>))>>,
                            treeInfo.leafCount) >>,
     recommendations |->
        << Rec("phylogenetic", "high", <<KName, KChildren>>),
           Rec("treemap", "medium", <<KName, KChildren>>) >>,
     isTreeStructure |-> TRUE]

\* Object.values(jsonData).find(Array.isArray), as None or Some(array)
FirstArrayProp(obj) ==
    LET vals == ObjectValues(obj)
        hits == {i \in 1..Len(vals) : IsArr(vals[i])}
    IN  IF hits = {} THEN None ELSE Some(vals[Min(hits)])

\* the generic path: the rows of jsonData, as None (Invalid JSON format) or Some(rows)
GenericRows(jsonData) ==
    IF IsArr(jsonData) THEN Some(jsonData)
    ELSE IF IsObjectLike(jsonData)
         THEN (IF IsObj(jsonData) /\ FirstArrayProp(jsonData) # None
               THEN Some(FirstArrayProp(jsonData)[1])
               ELSE Some(Arr(<<jsonData>>)))
    ELSE None

\* rawData.value = data; analysis.value = analyzeData(data)
RowsOutcome(data, an, an0) ==
    IF an = Thrown THEN Outcome(data, an0, Msg("TypeError")) ELSE Outcome(data, an, Null)

LoadRows(data, fb, raw0, an0) == RowsOutcome(data, AnalyzeData(data, fb), an0)

\* the paths of loadJSON after the box-plot test
LoadJsonRest(jsonData, fb, raw0, an0) ==
    IF IsAdmixtureStructure(jsonData)
    THEN Outcome(Arr(<<jsonData>>), AdmixtureAnalysis(AnalyzeAdmixtureStructure(jsonData)), Null)
    ELSE IF IsTreeStructure(jsonData)
    THEN Outcome(Arr(<<jsonData>>), TreeAnalysis(jsonData, AnalyzeTreeStructure(jsonData)), Null)
    ELSE IF GenericRows(jsonData) = None
    THEN Outcome(raw0, an0, Msg("Invalid JSON format"))
    ELSE LoadRows(GenericRows(jsonData)[1], fb, raw0, an0)

\* loadJSON with the admixture test moved before the box-plot test
LoadJsonAdmixtureFirst(jsonData, fb, raw0, an0) ==
    IF IsAdmixtureStructure(jsonData)
    THEN Outcome(Arr(<<jsonData>>), AdmixtureAnalysis(AnalyzeAdmixtureStructure(jsonData)), Null)
    ELSE IF IsBoxPlotStructure(jsonData) = "throw"
    THEN Outcome(raw0, an0, Msg("TypeError"))
    ELSE IF IsBoxPlotStructure(jsonData) = "true"
    THEN (IF AnalyzeBoxPlotStructure(jsonData) = Thrown
          THEN Outcome(raw0, an0, Msg("TypeError"))
          ELSE Outcome(jsonData, BoxPlotAnalysis(AnalyzeBoxPlotStructure(jsonData)), Null))
    ELSE LoadJsonRest(jsonData, fb, raw0, an0)

\* loadJSON(jsonData) called with rawData = raw0 and analysis = an0
LoadJson(jsonData, fb, raw0, an0) ==
    IF IsBoxPlotStructure(jsonData) = "throw"
    THEN Outcome(raw0, an0, Msg("TypeError"))
    ELSE IF IsBoxPlotStructure(jsonData) = "true"
    THEN (IF AnalyzeBoxPlotStructure(jsonData) = Thrown
          THEN Outcome(raw0, an0, Msg("TypeError"))
          ELSE Outcome(jsonData, BoxPlotAnalysis(AnalyzeBoxPlotStructure(jsonData)), Null))
    ELSE LoadJsonRest(jsonData, fb, raw0, an0)

\* loadCSV that accepts a text without data rows
LoadCsvNoCheck(csvString, fb, raw0, an0) ==
    LoadRows(Arr(ParseCSV(csvString)), fb, raw0, an0)

\* loadCSV(csvString) called with rawData = raw0 and analysis = an0
LoadCsv(csvString, fb, raw0, an0) ==
    LET data == ParseCSV(csvString)
    IN  IF Len(data) = 0
        THEN Outcome(raw0, an0, Msg("No data found in CSV"))
        ELSE LoadRows(Arr(data), fb, raw0, an0)

-----------------------------------------------------------------------------
(* JSON.parse, for texts without string escapes and without exponents.  A    *)
(* parse step answers the value read and the index after it, or NoParse.     *)

JsonWhiteSpace == {" ", "\n", "\r", "\t"}

RECURSIVE SkipWs(_, _)
SkipWs(s, i) == IF i <= Len(s) /\ s[i] \in JsonWhiteSpace THEN SkipWs(s, i + 1) ELSE i

Parsed(v, i) == [ok |-> TRUE, v |-> v, i |-> i]
NoParse == [ok |-> FALSE, v |-> Null, i |-> 0]

StartsWith(s, i, lit) == i + Len(lit) - 1 <= Len(s) /\ SubSeq(s, i, i + Len(lit) - 1) = lit

\* s.endsWith(suffix)
EndsWith(s, suffix) ==
    Len(suffix) <= Len(s) /\ SubSeq(s, Len(s) - Len(suffix) + 1, Len(s)) = suffix

RECURSIVE DigitsEnd(_, _)
\* the index after the run of digits that starts at i
DigitsEnd(s, i) == IF i <= Len(s) /\ IsDigit(s[i]) THEN DigitsEnd(s, i + 1) ELSE i

\* -?(0|[1-9][0-9]*)(\.[0-9]+)?
ParseNumber(s, i) ==
    LET a == IF CharAt(s, i, "-") THEN i + 1 ELSE i
        b == DigitsEnd(s, a)
        c == IF CharAt(s, b, ".") THEN DigitsEnd(s, b + 1) ELSE b
    IN  IF b > a /\ (b = a + 1 \/ s[a] # "0") /\ (c = b \/ c > b + 1)
        THEN Parsed(NumberOfString(SubSeq(s, i, c - 1)), c)
        ELSE NoParse

\* a string literal that starts at the quote s[i]
ParseString(s, i) ==
    LET closing == {j \in (i + 1)..Len(s) : s[j] = "\""}
        body == SubSeq(s, i + 1, Min(closing) - 1)
    IN  IF closing = {} THEN NoParse
        ELSE IF \E k \in 1..Len(body) : body[k] \in {"\\", "\n", "\r", "\t"} THEN NoParse
        ELSE Parsed(Str(body), Min(closing) + 1)

RECURSIVE ParseValue(_, _), ParseElements(_, _, _, _), ParseMembers(_, _, _, _)

ParseValue(s, from) ==
    LET i == SkipWs(s, from)
    IN  IF i > Len(s) THEN NoParse
        ELSE IF s[i] = "{" THEN ParseMembers(s, SkipWs(s, i + 1), Obj(<<>>), TRUE)
        ELSE IF s[i] = "[" THEN ParseElements(s, SkipWs(s, i + 1), <<>>, TRUE)
        ELSE IF s[i] = "\"" THEN ParseString(s, i)
        ELSE IF StartsWith(s, i, <<"n", "u", "l", "l">>) THEN Parsed(Null, i + 4)
        ELSE IF StartsWith(s, i, <<"t", "r", "u", "e">>) THEN Parsed(Bool(TRUE), i + 4)
        ELSE IF StartsWith(s, i, <<"f", "a", "l", "s", "e">>) THEN Parsed(Bool(FALSE), i + 5)
        ELSE ParseNumber(s, i)

\* the elements of an array from index i on; first: nothing was read yet
ParseElements(s, i, acc, first) ==
    IF first /\ CharAt(s, i, "]") THEN Parsed(Arr(acc), i + 1)
    ELSE LET r == ParseValue(s, i)
             j == SkipWs(s, r.i)
         IN  IF ~r.ok THEN NoParse
             ELSE IF CharAt(s, j, ",")
             THEN ParseElements(s, SkipWs(s, j + 1), Append(acc, r.v), FALSE)
             ELSE IF CharAt(s, j, "]") THEN Parsed(Arr(Append(acc, r.v)), j + 1)
             ELSE NoParse

\* the members of an object from index i on
ParseMembers(s, i, acc, first) ==
    IF first /\ CharAt(s, i, "}") THEN Parsed(acc, i + 1)
    ELSE IF ~CharAt(s, i, "\"") THEN NoParse
    ELSE LET k == ParseString(s, i)
             c == SkipWs(s, k.i)
             r == ParseValue(s, c + 1)
             j == SkipWs(s, r.i)
         IN  IF ~k.ok THEN NoParse
             ELSE IF ~CharAt(s, c, ":") THEN NoParse
             ELSE IF ~r.ok THEN NoParse
             ELSE IF CharAt(s, j, ",")
             THEN ParseMembers(s, SkipWs(s, j + 1), ObjSet(acc, k.v.s, r.v), FALSE)
             ELSE IF CharAt(s, j, "}") THEN Parsed(ObjSet(acc, k.v.s, r.v), j + 1)
             ELSE NoParse

\* JSON.parse(text): Some(value), or None for a SyntaxError
JsonParse(text) ==
    LET r == ParseValue(text, 1)
    IN  IF r.ok /\ SkipWs(text, r.i) = Len(text) + 1 THEN Some(r.v) ELSE None

-----------------------------------------------------------------------------
(* Inputs of detectValueType: strings built from up to MaxTokens tokens *)

TokIsoDate == <<"2", "0", "2", "4", "-", "0", "1", "-", "1", "5">>
TokSlashDate == <<"2", "0", "2", "4", "/", "0", "1", "/", "1", "5">>
TokTime == <<"1", "4", ":", "3", "0">>
TokSeconds == <<":", "0", "0">>
TokTTime == <<"T", "1", "0", ":", "0", "0">>
TokYearMonth == <<"2", "0", "2", "4", "-", "0", "1">>
TokBadMonth == <<"2", "0", "2", "4", "-", "1", "3">>
TokMonth == <<"J", "a", "n">>
TokDigits8 == <<"2", "0", "2", "4", "0", "1", "1", "5">>
TokInt == <<"4", "2">>
TokSpace == <<" ">>
TokLetter == <<"q">>
TokMinus == <<"-">>
TokDot == <<".">>
TokFive == <<"5">>

DetectTokens ==
    { TokIsoDate, TokSlashDate, TokTime, TokSeconds, TokTTime, TokYearMonth, TokBadMonth, TokMonth,
      TokDigits8, TokInt, TokSpace, TokLetter, TokMinus, TokDot, TokFive }

MaxTokens == 3

RECURSIVE TokenStrings(_)
TokenStrings(n) ==
    IF n = 0 THEN {<<>>}
    ELSE LET prev == TokenStrings(n - 1)
         IN  prev \cup {s \o t : s \in prev, t \in DetectTokens}

DetectInputs ==
    {Str(s) : s \in TokenStrings(MaxTokens)}
        \cup {Null, Undef, NaN, Num(0), Whole(42), Num(0 - 150), Bool(TRUE),
              DateObj(TRUE), DateObj(FALSE), Arr(<<>>), Obj(<<>>)}

-----------------------------------------------------------------------------
(* Inputs of analyzeField: three families of value lists *)

CharsX == <<"x">>
CharsY == <<"y">>
Chars50 == <<"5", "0">>

\* values of mixed types, for the vote
MixValues ==
    {Null, NaN, Whole(1), Whole(2), Str(CharsX), Str(CharsY), Str(TokIsoDate),
     Str(TokTime), Str(TokIsoDate \o TokLetter)}

\* numbers around the percentage bounds: -5, 0, 0.5, 1, 50, 100, 100.01
RangeValues ==
    {Num(0 - 500), Num(0), Num(50), Whole(1), Whole(50), Whole(100), Num(10001),
     Str(Chars50), Undef, Str(CharsX)}

\* a few values repeated, for long columns
LongValues == {Whole(1), Str(CharsX), Null, Str(<<>>)}

MaxMix == 4
MaxRange == 3
MaxLong == 6

RECURSIVE Lists(_, _)
\* the lists of at most n elements of S
Lists(S, n) ==
    IF n = 0 THEN {<<>>}
    ELSE LET prev == Lists(S, n - 1)
         IN  prev \cup {Append(l, x) : l \in prev, x \in S}

FieldInputs ==
    Lists(MixValues, MaxMix) \cup Lists(RangeValues, MaxRange) \cup Lists(LongValues, MaxLong)

-----------------------------------------------------------------------------
(* Inputs of generateRecommendations: lists of field profiles.  The rules    *)
(* read a profile's name, type, uniqueCount and isPercentage.                *)

FieldNames ==
    << <<"f", "1">>, <<"f", "2">>, <<"f", "3">>, <<"f", "4">>, <<"f", "5">>,
       <<"f", "6">>, <<"f", "7">>, <<"f", "8">>, <<"f", "9">> >>

Profile(type, uniqueCount, isPercentage) ==
    [name |-> <<>>, type |-> type, sampleValues |-> <<>>, uniqueCount |-> uniqueCount,
     nullCount |-> 0,
     min |-> IF type = "numerical" THEN Num(IF isPercentage THEN 0 ELSE 0 - Scale) ELSE Undef,
     max |-> IF type = "numerical" THEN Whole(1) ELSE Undef,
     isPercentage |-> isPercentage]

\* profiles on both sides of every threshold of the rules
ProfileKinds ==
    {Profile("numerical", u, pct) : u \in {1, 5}, pct \in BOOLEAN}
        \cup {Profile("categorical", u, FALSE) : u \in {2, 4, 8, 9, 10, 11, 20, 21, 30, 31}}
        \cup {Profile("temporal", 3, FALSE), Profile("unknown", 0, FALSE)}

\* one profile of each type, for wide tables
PlainKinds ==
    {Profile("numerical", 5, FALSE), Profile("categorical", 5, FALSE),
     Profile("temporal", 3, FALSE), Profile("unknown", 0, FALSE)}

MaxProfiles == 3
MaxWide == 7

\* the i-th profile of a list is named FieldNames[i]
Named(ps) == [i \in 1..Len(ps) |-> [ps[i] EXCEPT !.name = FieldNames[i]]]

KDate == <<"d", "a", "t", "e">>
KTemp == <<"t", "e", "m", "p">>

\* [{date: "2024-01-01", temp: 20}, {date: "2024-01-02", temp: 22}]
TrendRows ==
    Arr(<< Obj(<< <<KDate, Str(<<"2", "0", "2", "4", "-", "0", "1", "-", "0", "1">>)>>, <<KTemp, Whole(20)>> >>),
           Obj(<< <<KDate, Str(<<"2", "0", "2", "4", "-", "0", "1", "-", "0", "2">>)>>, <<KTemp, Whole(22)>> >>) >>)

RecInputs(fb) ==
    {Named(ps) : ps \in Lists(ProfileKinds, MaxProfiles) \cup Lists(PlainKinds, MaxWide)}
        \cup {AnalyzeData(TrendRows, fb).fieldProfiles}

-----------------------------------------------------------------------------
(* Inputs of loadJSON *)

Pair(k, v) == <<k, v>>

Y5 == Arr(<<Whole(1), Whole(2), Whole(3), Whole(4), Whole(5)>>)
Y4 == Arr(<<Whole(1), Whole(2), Whole(3), Whole(4)>>)
Half == Arr(<<Num(50)>>)

\* { x: "A", y: [1, 2, 3, 4, 5] }
BoxItem == Obj(<<Pair(KX, Str(<<"A">>)), Pair(KY, Y5)>>)
\* a box that is also a series { name: "k1", data: [0.5] }
BoxSeriesItem ==
    Obj(<<Pair(KX, Str(<<"B">>)), Pair(KY, Y5), Pair(KName, Str(<<"k", "1">>)),
          Pair(KData, Half)>>)
\* { name: "k2", data: [0.5] }
SeriesItem == Obj(<<Pair(KName, Str(<<"k", "2">>)), Pair(KData, Half)>>)
\* { a: 1 }
RowItem == Obj(<<Pair(<<"a">>, Whole(1))>>)

ItemKinds == {BoxSeriesItem, SeriesItem, Null}

MaxItems == 2

Leaf(n) == Obj(<<Pair(KName, Str(n))>>)
Node(n, cs) == Obj(<<Pair(KName, Str(n)), Pair(KChildren, Arr(cs))>>)
Series(n, d) == Obj(<<Pair(KName, Str(n)), Pair(KData, Arr(d))>>)

JsonShapes ==
    { \* neither object nor array
      Null, Whole(5), Str(<<"q">>), Bool(TRUE),
      \* arrays of primitives, plain boxes, a malformed box
      Arr(<<BoxItem>>),
      Arr(<<BoxItem, BoxItem>>),
      Arr(<<BoxItem, RowItem>>),
      Arr(<<Whole(1), Whole(2)>>),
      Arr(<<Obj(<<Pair(KX, Str(<<"A">>)), Pair(KY, Y4)>>)>>),
      \* box-plot series format
      Arr(<<Obj(<<Pair(KName, Str(<<"S">>)), Pair(KType, Str(SBoxPlot)),
                  Pair(KData, Arr(<<BoxItem, BoxItem>>))>>)>>),
      Arr(<<Obj(<<Pair(KType, Str(SBoxPlot)), Pair(KData, Arr(<<BoxItem, Null>>))>>)>>),
      Arr(<<Obj(<<Pair(KType, Str(SBoxPlot)), Pair(KData, Arr(<<Whole(5)>>))>>)>>),
      \* admixture object format, and one with no samples
      Obj(<<Pair(KSamples, Arr(<<Str(<<"s", "1">>), Str(<<"s", "2">>)>>)),
            Pair(KClusters, Arr(<<Obj(<<Pair(KName, Str(<<"c">>)),
                                        Pair(KValues, Arr(<<Num(50), Num(50)>>))>>)>>))>>),
      Obj(<<Pair(KSamples, Arr(<<>>)), Pair(KClusters, Arr(<<RowItem>>))>>),
      \* series that are proportions, and series that are neither
      Arr(<<Series(<<"q">>, <<Num(50)>>), Series(<<"r">>, <<Num(50)>>)>>),
      Arr(<<Series(<<"q">>, <<Whole(5)>>), Series(<<"r">>, <<Whole(5)>>)>>),
      \* trees
      Node(<<"r">>, <<Leaf(<<"c">>)>>),
      Node(<<"r">>, <<Node(<<"c">>, <<Leaf(<<"d">>), Leaf(<<"e">>)>>), Whole(5)>>),
      Node(<<"r">>, <<>>),
      Node(<<"r">>, <<Whole(5)>>),
      Obj(<<Pair(<<"k", "e", "y">>, Str(<<"r">>)), Pair(<<"n", "o", "d", "e", "s">>, Arr(<<Obj(<<Pair(<<"t", "e", "x", "t">>, Str(<<"c">>))>>)>>))>>),
      Obj(<<Pair(KName, Str(<<"r">>)), Pair(KChildren, Arr(<<>>)),
            Pair(<<"n", "o", "d", "e", "s">>, Arr(<<Leaf(<<"c">>)>>))>>),
      \* tables
      TrendRows,
      Arr(<<RowItem>>),
      Arr(<<RowItem, Null>>),
      Obj(<<Pair(<<"r", "o", "w", "s">>, TrendRows)>>),
      Obj(<<Pair(<<"a">>, Null)>>),
      Arr(<<Obj(<<Pair(<<"a">>, Str(<<"q">>)), Pair(<<"b">>, Str(<<"r">>)),
                  Pair(<<"c">>, Null)>>)>>) }

JsonInputs == {Arr(items) : items \in Lists(ItemKinds, MaxItems)} \cup JsonShapes

-----------------------------------------------------------------------------
(* Inputs of loadCSV and parseCSV: texts of up to MaxCsvTokens tokens *)

CsvTokens == {<<"a">>, <<"1">>, <<",">>, <<"\n">>, <<" ">>, <<"\"">>}

MaxCsvTokens == 5

RECURSIVE CsvStrings(_)
CsvStrings(n) ==
    IF n = 0 THEN {<<>>}
    ELSE LET prev == CsvStrings(n - 1)
         IN  prev \cup {s \o t : s \in prev, t \in CsvTokens}

\* "a,b\n1,2\n3,4"
CsvExample == <<"a", ",", "b", "\n", "1", ",", "2", "\n", "3", ",", "4">>

\* "a,a\n1,2": a repeated header
CsvRepeated == <<"a", ",", "a", "\n", "1", ",", "2">>

\* quoted cells, a cell too many, a cell missing
CsvQuoted ==
    <<"\"", "a", "\"", ",", " ", "'", "b", "'", "\n", "\"", " ", "1", "\"", ",", "x", ",", "2", "\n", "-", "1", ".", "5">>

CsvTexts == CsvStrings(MaxCsvTokens) \cup {CsvExample, CsvRepeated, CsvQuoted}

\* the texts of the analyzer's own runs: empty, a single line, a header with a
\* blank line, a header with one row, the example
CsvFew == {<<>>, <<"a">>, <<"a", "\n", " ">>, <<"a", "\n", "1">>, CsvExample}

-----------------------------------------------------------------------------
(* The analyzer's state after useDataAnalyzer() *)

AnalyzerInit ==
    /\ rawData = Arr(<<>>)
    /\ analysis = Null
    /\ isAnalyzing = FALSE
    /\ error = Null
    /\ reading = <<>>

Pending(x) == [op |-> "pending", arg |-> x]
Called(f, x) == [op |-> f, arg |-> x]

-----------------------------------------------------------------------------
(* Specification of detectValueType alone *)

InitDetect ==
    /\ AnalyzerInit
    /\ legacyDate \in BOOLEAN
    /\ \E v \in DetectInputs : call = Pending(v)
    /\ ret = Null

DetectStep ==
    /\ call.op = "pending"
    /\ call' = Called("detectValueType", call.arg)
    /\ ret' = [t |-> "type", type |-> DetectValueType(call.arg, legacyDate)]
    /\ UNCHANGED <<rawData, analysis, isAnalyzing, error, reading, legacyDate>>

NextDetect == DetectStep

SpecDetect == InitDetect /\ [][NextDetect]_vars

\* C6: detectValueType on a string checks, in this order: numeric parse of the
\* non-empty trimmed string (numerical; so a digits-only string is never
\* temporal), then the temporal patterns (temporal), then length > 6 with
\* Date.parse accepting a string that is not purely digits (temporal), else
\* categorical; null, undefined and the empty string give unknown.
C6_DetectOrder ==
    call.op = "detectValueType" =>
        LET a == call.arg
            r == ret.type
        IN  /\ (a = Null \/ a = Undef \/ a = Str(<<>>)) => r = "unknown"
            /\ (IsStr(a) /\ a.s # <<>>) =>
                  LET t == Trim(a.s)
                      numeric == t # <<>> /\ StringIsNumber(t)
                      pattern == MatchesDatePattern(t)
                      parsed == Len(t) > 6 /\ DateParses(t, legacyDate) /\ ~PurelyDigits(t)
                  IN  /\ numeric => r = "numerical"
                      /\ PurelyDigits(t) => r = "numerical"
                      /\ (~numeric /\ pattern) => r = "temporal"
                      /\ (~numeric /\ ~pattern /\ parsed) => r = "temporal"
                      /\ (~numeric /\ ~pattern /\ ~parsed) => r = "categorical"

\* detectValueType("20240115") = numerical on an engine whose Date.parse accepts it
C6_Witness ==
    /\ call = Called("detectValueType", Str(TokDigits8))
    /\ legacyDate
    /\ ret.type = "numerical"

-----------------------------------------------------------------------------
(* Specification of analyzeField alone *)

InitField ==
    /\ AnalyzerInit
    /\ legacyDate \in BOOLEAN
    /\ \E vs \in FieldInputs : call = Pending(vs)
    /\ ret = Null

FieldStep ==
    /\ call.op = "pending"
    /\ call' = Called("analyzeField", call.arg)
    /\ ret' = [t |-> "profile", profile |-> AnalyzeField("f", call.arg, legacyDate)]
    /\ UNCHANGED <<rawData, analysis, isAnalyzing, error, reading, legacyDate>>

NextField == FieldStep

SpecField == InitField /\ [][NextField]_vars

\* the number of values of vs that detectValueType gives type ty
Tally(vs, ty) ==
    Cardinality({i \in 1..Len(vs) : ~IsNullish(vs[i]) /\ DetectValueType(vs[i], legacyDate) = ty})

\* C5: the dominant type is the non-unknown type with the highest tally; on
\* equal highest tallies numerical wins over categorical, and categorical
\* over temporal.
C5_DominantTieBreak ==
    call.op = "analyzeField" =>
        LET vs == call.arg
            n == Tally(vs, "numerical")
            c == Tally(vs, "categorical")
            d == Tally(vs, "temporal")
            type == ret.profile.type
        IN  /\ type = "numerical" <=> (n > 0 /\ n >= c /\ n >= d)
            /\ type = "categorical" <=> (c > 0 /\ c > n /\ c >= d)
            /\ type = "temporal" <=> (d > 0 /\ d > n /\ d > c)
            /\ type = "unknown" <=> (n = 0 /\ c = 0 /\ d = 0)

\* analyzeField over [1, 2, "x", "y"] gives numerical
C5_Witness ==
    /\ call = Called("analyzeField", <<Whole(1), Whole(2), Str(CharsX), Str(CharsY)>>)
    /\ ret.profile.type = "numerical"

\* the minimum and maximum of the numerically parsed valid values of vs
ParsedNumbers(vs) ==
    {NumberOf(vs[i]).n : i \in {j \in 1..Len(vs) :
        /\ ~IsNullish(vs[j])
        /\ DetectValueType(vs[j], legacyDate) # "unknown"
        /\ NumberOf(vs[j]) # NaN}}

\* C7: for a numerical field isPercentage is true exactly when min >= 0 and
\* max <= 100 (or min >= 0 and max <= 1), min and max being taken over the
\* numerically parsed valid values; for any other field isPercentage is false
\* and min and max are undefined.
C7_Percentage ==
    call.op = "analyzeField" =>
        LET p == ret.profile
            ns == ParsedNumbers(call.arg)
        IN  IF p.type = "numerical"
            THEN /\ p.min = Num(Min(ns))
                 /\ p.max = Num(Max(ns))
                 /\ p.isPercentage <=>
                        \/ (\A n \in ns : n >= 0) /\ (\A n \in ns : n <= 100 * Scale)
                        \/ (\A n \in ns : n >= 0) /\ (\A n \in ns : n <= Scale)
            ELSE p.isPercentage = FALSE /\ p.min = Undef /\ p.max = Undef

\* [-5, 50, 100] is numerical and not a percentage
C7_Witness ==
    /\ call = Called("analyzeField", <<Num(0 - 500), Whole(50), Whole(100)>>)
    /\ ret.profile.type = "numerical"
    /\ ret.profile.min = Num(0 - 500)
    /\ ~ret.profile.isPercentage

-----------------------------------------------------------------------------
(* Specification of generateRecommendations alone *)

InitRec ==
    /\ AnalyzerInit
    /\ legacyDate \in BOOLEAN
    /\ \E ps \in RecInputs(legacyDate) : call = Pending(ps)
    /\ ret = Null

RecStep ==
    /\ call.op = "pending"
    /\ call' = Called("generateRecommendations", call.arg)
    /\ ret' = [t |-> "recs", recs |-> GenerateRecommendations(call.arg)]
    /\ UNCHANGED <<rawData, analysis, isAnalyzing, error, reading, legacyDate>>

NextRec == RecStep

SpecRec == InitRec /\ [][NextRec]_vars

Range(s) == {s[i] : i \in 1..Len(s)}

\* the field names a recommendation binds to its axes
Bound(r) ==
    Range(r.xAxis) \cup (IF r.yAxis = None THEN {} ELSE Range(r.yAxis[1]))
        \cup Range(r.category) \cup Range(r.value) \cup Range(r.source) \cup Range(r.target)

\* C3: every field name bound in xAxis, yAxis, category, value, source or
\* target of a returned recommendation is an element of its fields.
C3_FieldCoverage ==
    call.op = "generateRecommendations" =>
        \A i \in 1..Len(ret.recs) : Bound(ret.recs[i]) \subseteq Range(ret.recs[i].fields)

\* a heatmap, which binds three different fields, is returned
C3_Witness ==
    /\ call.op = "generateRecommendations"
    /\ \E i \in 1..Len(ret.recs) :
          /\ ret.recs[i].type = "heatmap"
          /\ Cardinality(Bound(ret.recs[i])) = 3

RuleOrder ==
    <<"line", "area", "stepLine", "bar", "pie", "radialBar", "metric", "stackedBar",
      "scatter", "bubble", "dotPlot", "heatmap", "radar", "sankey", "treemap",
      "activity", "dataGrid">>

RulePos(type) == CHOOSE k \in 1..Len(RuleOrder) : RuleOrder[k] = type

\* C4: the chart types returned appear in rule-evaluation order: the output is
\* a subsequence of RuleOrder, whatever the confidences.
C4_RuleOrder ==
    call.op = "generateRecommendations" =>
        /\ \A i \in 1..Len(ret.recs) : ret.recs[i].type \in Range(RuleOrder)
        /\ \A i, j \in 1..Len(ret.recs) :
              i < j => RulePos(ret.recs[i].type) < RulePos(ret.recs[j].type)

\* a medium recommendation precedes a high one
C4_Witness ==
    /\ call.op = "generateRecommendations"
    /\ \E i, j \in 1..Len(ret.recs) :
          /\ i < j
          /\ ret.recs[i].confidence = "medium"
          /\ ret.recs[j].confidence = "high"

\* the profiles of ps of type ty, in field order
OfType(ps, ty) == SelectSeq(ps, LAMBDA p : p.type = ty)

\* C8: with at least one temporal and one numerical field the first three
\* recommendations are line (high), area (high), stepLine (medium); line binds
\* the first temporal field to the first up to 3 numerical fields, area and
\* stepLine have fields exactly [first temporal, first numerical].
C8_TrendFirst ==
    call.op = "generateRecommendations" =>
        LET tem == OfType(call.arg, "temporal")
            num == OfType(call.arg, "numerical")
            recs == ret.recs
        IN  (tem # <<>> /\ num # <<>>) =>
              /\ Len(recs) >= 3
              /\ <<recs[1].type, recs[2].type, recs[3].type>> = <<"line", "area", "stepLine">>
              /\ <<recs[1].confidence, recs[2].confidence, recs[3].confidence>>
                    = <<"high", "high", "medium">>
              /\ recs[1].xAxis = Some(tem[1].name)
              /\ recs[1].yAxis = Some(Names(Slice(num, 3)))
              /\ recs[1].fields = <<tem[1].name>> \o Names(Slice(num, 3))
              /\ recs[2].fields = <<tem[1].name, num[1].name>>
              /\ recs[3].fields = <<tem[1].name, num[1].name>>
              /\ (Names(call.arg) = <<KDate, KTemp>> =>
                    \A k \in 1..3 : recs[k].fields = <<KDate, KTemp>>)

\* the profiles of the date/temp rows give line, area, stepLine over [date, temp]
C8_Witness ==
    /\ call = Called("generateRecommendations", AnalyzeData(TrendRows, legacyDate).fieldProfiles)
    /\ Len(ret.recs) >= 3
    /\ \A k \in 1..3 : ret.recs[k].fields = <<KDate, KTemp>>
    /\ ret.recs[1].type = "line"

-----------------------------------------------------------------------------
(* Specification of the analyzer: any sequence of loads and clears *)

Init ==
    /\ AnalyzerInit
    /\ legacyDate \in BOOLEAN
    /\ call = Called("useDataAnalyzer", Null)
    /\ ret = Null

Finish(outcome) ==
    /\ rawData' = outcome.rawData
    /\ analysis' = outcome.analysis
    /\ error' = outcome.error
    /\ isAnalyzing' = FALSE

LoadJSON(jsonData) ==
    /\ Finish(LoadJson(jsonData, legacyDate, rawData, analysis))
    /\ call' = Called("loadJSON", jsonData)
    /\ UNCHANGED <<reading, legacyDate, ret>>

LoadCSV(csvString) ==
    /\ Finish(LoadCsv(csvString, legacyDate, rawData, analysis))
    /\ call' = Called("loadCSV", Str(csvString))
    /\ UNCHANGED <<reading, legacyDate, ret>>

\* clearData that leaves the error message
ClearDataKeepsError ==
    /\ rawData' = Arr(<<>>)
    /\ analysis' = Null
    /\ call' = Called("clearData", Null)
    /\ UNCHANGED <<isAnalyzing, error, reading, legacyDate, ret>>

ClearData ==
    /\ rawData' = Arr(<<>>)
    /\ analysis' = Null
    /\ error' = Null
    /\ call' = Called("clearData", Null)
    /\ UNCHANGED <<isAnalyzing, reading, legacyDate, ret>>

Next ==
    \/ \E jsonData \in JsonInputs : LoadJSON(jsonData)
    \/ \E csvString \in CsvFew : LoadCSV(csvString)
    \/ ClearData

Spec == Init /\ [][Next]_vars

-----------------------------------------------------------------------------
(* Specification of parseCSV and of one loadCSV on a fresh analyzer *)

InitCsv ==
    /\ AnalyzerInit
    /\ legacyDate \in BOOLEAN
    /\ \E text \in CsvTexts : call = Pending(Str(text))
    /\ ret = Null

ParseStep ==
    /\ call.op = "pending"
    /\ call' = Called("parseCSV", call.arg)
    /\ ret' = [t |-> "rows", rows |-> ParseCSV(call.arg.s)]
    /\ UNCHANGED <<rawData, analysis, isAnalyzing, error, reading, legacyDate>>

LoadCsvStep ==
    /\ call.op = "pending"
    /\ Finish(LoadCsv(call.arg.s, legacyDate, rawData, analysis))
    /\ call' = Called("loadCSV", call.arg)
    /\ UNCHANGED <<reading, legacyDate, ret>>

NextCsv == ParseStep \/ LoadCsvStep

SpecCsv == InitCsv /\ [][NextCsv]_vars

-----------------------------------------------------------------------------
(* Claims about loadJSON and loadCSV *)

\* the chart types and confidences of an analysis, in order
Summary(an) ==
    [i \in 1..Len(an.recommendations) |->
        <<an.recommendations[i].type, an.recommendations[i].confidence>>]

ProfileNames(an) == [i \in 1..Len(an.fieldProfiles) |-> an.fieldProfiles[i].name]

IsBoxPlotResult ==
    /\ error = Null
    /\ analysis # Null
    /\ Summary(analysis) = << <<"boxPlot", "high">>, <<"bar", "low">> >>
    /\ ProfileNames(analysis) = <<KX, KY>>
    /\ rawData = call.arg

\* C1: loadJSON tests box-plot, then admixture, then tree, before the generic
\* path: an input accepted by the box-plot detector and by the admixture
\* series-format detector gets the box-plot analysis (boxPlot high, bar low,
\* profiles x and y) and never the admixture one; an input accepted by the
\* admixture detector only gets the admixture analysis, and one accepted by
\* the tree detector only gets the tree analysis.
C1_DetectorOrder ==
    call.op = "loadJSON" =>
        /\ (IsBoxPlotStructure(call.arg) = "true" /\ IsAdmixtureSeries(call.arg))
              => IsBoxPlotResult
        /\ (IsBoxPlotStructure(call.arg) = "false" /\ IsAdmixtureStructure(call.arg))
              => /\ error = Null
                 /\ Summary(analysis) = << <<"admixture", "high">>, <<"stackedBar", "medium">> >>
        /\ (/\ IsBoxPlotStructure(call.arg) = "false"
            /\ ~IsAdmixtureStructure(call.arg)
            /\ IsTreeStructure(call.arg))
              => /\ error = Null
                 /\ Summary(analysis) = << <<"phylogenetic", "high">>, <<"treemap", "medium">> >>

C1_Witness ==
    /\ call.op = "loadJSON"
    /\ IsBoxPlotStructure(call.arg) = "true"
    /\ IsAdmixtureSeries(call.arg)
    /\ IsBoxPlotResult

\* the inputs on which a load fails: a CSV text of fewer than 2 lines, a JSON
\* top level that is neither object nor array, a detector that throws
Malformed(c) ==
    \/ c.op = "loadCSV" /\ Len(Split(Trim(c.arg.s), "\n")) < 2
    \/ c.op = "loadJSON" /\ ~IsArr(c.arg) /\ ~IsObj(c.arg)
    \/ c.op = "loadJSON" /\ IsBoxPlotStructure(c.arg) = "throw"

\* C2: after a load that fails on malformed input, whatever loads came before,
\* error is a message, and the analysis and the rows are cleared: nothing of an
\* earlier successful load remains.
C2_FailedLoadClears ==
    Malformed(call) =>
        /\ error.t = "msg"
        /\ analysis = Null
        /\ rawData = Arr(<<>>)

\* C2, the part the code keeps: a failed load returns with error set to a
\* message and isAnalyzing false.
C2_FailedLoadReports ==
    Malformed(call) => error.t = "msg" /\ ~isAnalyzing

\* a failed load after a successful one: the earlier analysis is still there
C2_Stale ==
    /\ Malformed(call)
    /\ error.t = "msg"
    /\ analysis # Null
    /\ rawData # Arr(<<>>)

-----------------------------------------------------------------------------
(* Claims about loadCSV and parseCSV on a fresh analyzer *)

CsvLines == Split(Trim(call.arg.s), "\n")

\* C9: loadCSV on a text of fewer than 2 lines after trimming sets error to
\* "No data found in CSV" and leaves isAnalyzing false (rawData and analysis
\* stay as constructed); on a text with a line after the header it sets
\* rawData to the parsed rows, analysis to their analysis and error to null.
C9_LoadCsv ==
    call.op = "loadCSV" =>
        IF Len(CsvLines) < 2
        THEN /\ error = Msg("No data found in CSV")
             /\ ~isAnalyzing
             /\ rawData = Arr(<<>>)
             /\ analysis = Null
        ELSE /\ error = Null
             /\ ~isAnalyzing
             /\ rawData = Arr(ParseCSV(call.arg.s))
             /\ Len(rawData.a) = Len(CsvLines) - 1
             /\ analysis = AnalyzeData(rawData, legacyDate)
             /\ analysis.rowCount = Len(CsvLines) - 1

\* a header followed only by a blank line
C9_Witness ==
    /\ call.op = "loadCSV"
    /\ Len(call.arg.s) > 1
    /\ Len(CsvLines) < 2
    /\ error = Msg("No data found in CSV")

\* what parseCSV stores for the index-th cell of a line
Stored(cells, index) ==
    IF index > Len(cells) THEN Undef
    ELSE IF cells[index] # <<>> /\ NumberOf(Str(cells[index])) # NaN
         THEN NumberOf(Str(cells[index]))
    ELSE Str(cells[index])

KeySet(row) == {row.o[k][1] : k \in DOMAIN row.o}

\* the header at position i is not repeated at a later position
LastOccurrence(headers, i) == \A j \in (i + 1)..Len(headers) : headers[j] # headers[i]

\* "a,b\n1,2\n3,4" yields [{a:1,b:2},{a:3,b:4}], both fields numerical
CsvExampleOk ==
    call.arg.s = CsvExample =>
        /\ ret.rows = << Obj(<<Pair(<<"a">>, Whole(1)), Pair(<<"b">>, Whole(2))>>),
                        Obj(<<Pair(<<"a">>, Whole(3)), Pair(<<"b">>, Whole(4))>>) >>
        /\ LET profiles == AnalyzeData(Arr(ret.rows), legacyDate).fieldProfiles
           IN  /\ Len(profiles) = 2
               /\ \A i \in 1..2 : profiles[i].type = "numerical"

\* the rows of a text of n >= 2 lines: n - 1 rows, each with exactly the header
\* names as keys, and the cells bound to the headers at the positions in `at`
RowsBind(at(_, _)) ==
    LET headers == Cells(CsvLines[1])
    IN  Len(CsvLines) >= 2 =>
            /\ Len(ret.rows) = Len(CsvLines) - 1
            /\ \A r \in 1..Len(ret.rows) :
                   /\ KeySet(ret.rows[r]) = {headers[i] : i \in 1..Len(headers)}
                   /\ \A i \in 1..Len(headers) :
                          at(headers, i) =>
                              Get(ret.rows[r], headers[i]) = Stored(Cells(CsvLines[r + 1]), i)

EveryPosition(headers, i) == TRUE

\* C10 as stated: parseCSV on a text of n >= 2 lines returns n - 1 rows, every
\* row has exactly the header names as keys with the i-th cell bound to the
\* i-th header (extra cells dropped, missing cells undefined), a cell being a
\* number exactly when it is non-empty and Number(cell) is not NaN.
C10_EveryCellBound ==
    call.op = "parseCSV" => RowsBind(EveryPosition) /\ CsvExampleOk

\* C10, amended: as above, except that a header name that occurs more than
\* once is bound to the cell at the position of its last occurrence.
C10_ParseCsv ==
    call.op = "parseCSV" => RowsBind(LastOccurrence) /\ CsvExampleOk

\* a text with a repeated header whose cells differ
C10_Witness ==
    /\ call.op = "parseCSV"
    /\ Len(CsvLines) >= 2
    /\ LET headers == Cells(CsvLines[1])
           cells == Cells(CsvLines[2])
       IN  /\ Len(headers) = 2 /\ headers[1] = headers[2]
           /\ Len(cells) = 2 /\ Stored(cells, 1) # Stored(cells, 2)
           /\ Get(ret.rows[1], headers[1]) = Stored(cells, 2)

-----------------------------------------------------------------------------
(* Claims about the generic path of loadJSON *)

\* no structure detector answers true
NoDetector(jsonData) ==
    /\ IsBoxPlotStructure(jsonData) # "true"
    /\ ~IsAdmixtureStructure(jsonData)
    /\ ~IsTreeStructure(jsonData)

\* the load ended without error with `rows` as the row set
AcceptedAs(rows) ==
    /\ error = Null
    /\ rawData = rows
    /\ analysis # Null
    /\ analysis.rowCount = Len(rows.a)

\* C11: a JSON value that no detector matches takes the generic path: a
\* top-level array, whatever its elements, is the row set; a non-array object
\* gives its first array-valued property, else is wrapped as one row; error
\* stays null and rowCount is the number of rows.  Any other value ends with
\* error "Invalid JSON format".
C11_GenericPath ==
    (call.op = "loadJSON" /\ NoDetector(call.arg)) =>
        IF IsArr(call.arg) THEN AcceptedAs(call.arg)
        ELSE IF IsObj(call.arg)
        THEN AcceptedAs(IF FirstArrayProp(call.arg) # None
                        THEN FirstArrayProp(call.arg)[1]
                        ELSE Arr(<<call.arg>>))
        ELSE error = Msg("Invalid JSON format")

\* a top-level array of primitives, or one that starts with null, is refused
\* with the TypeError of the box-plot detector
C11_ArrayRefused ==
    /\ call.op = "loadJSON"
    /\ IsArr(call.arg) /\ call.arg.a # <<>>
    /\ ~IsObj(call.arg.a[1])
    /\ IsBoxPlotStructure(call.arg) = "throw"
    /\ error = Msg("TypeError")

-----------------------------------------------------------------------------
(* loadFile and the uploader that submits files to it.  A loadFile call is    *)
(* two steps: up to `await file.text()`, and from the settling of that       *)
(* promise to the end.  Reads settle in any order.                            *)

File(name, text) == [t |-> "file", name |-> name, text |-> text]

SJson == <<".", "j", "s", "o", "n">>
SCsv == <<".", "c", "s", "v">>

\* the dispatch of loadFile on the name as given, not lower-cased
FileCallsAsGiven(name, parsed) ==
    IF EndsWith(name, SJson)
    THEN (IF parsed THEN <<"JSON.parse", "loadJSON">> ELSE <<"JSON.parse">>)
    ELSE IF EndsWith(name, SCsv) THEN <<"loadCSV">>
    ELSE IF parsed THEN <<"JSON.parse", "loadJSON">>
    ELSE <<"JSON.parse", "loadCSV">>

\* the calls loadFile makes after the read, by lower-cased name; parsed is
\* whether JSON.parse(text) returned
FileCalls(name, parsed) ==
    LET fileName == LowerCase(name)
    IN  IF EndsWith(fileName, SJson)
        THEN (IF parsed THEN <<"JSON.parse", "loadJSON">> ELSE <<"JSON.parse">>)
        ELSE IF EndsWith(fileName, SCsv) THEN <<"loadCSV">>
        ELSE IF parsed THEN <<"JSON.parse", "loadJSON">>
        ELSE <<"JSON.parse", "loadCSV">>

Last(s) == s[Len(s)]

\* the rest of loadFile(file) once file.text() has resolved
LoadFileRest(file, fb, raw0, an0) ==
    LET json == JsonParse(file.text)
        last == Last(FileCalls(file.name, json # None))
    IN  IF last = "loadJSON" THEN LoadJson(json[1], fb, raw0, an0)
        ELSE IF last = "loadCSV" THEN LoadCsv(file.text, fb, raw0, an0)
        ELSE Outcome(raw0, an0, Msg("SyntaxError"))

RemoveAt(s, i) == SubSeq(s, 1, i - 1) \o SubSeq(s, i + 1, Len(s))

\* hasResults of the uploader: the upload zone is rendered only without results
HasResults == analysis # Null /\ analysis.rowCount > 0

-----------------------------------------------------------------------------
(* Inputs of loadFile *)

FileNames == { <<"D", ".", "J", "S", "O", "N">>, <<"d", ".", "c", "s", "v">>,
               <<"d", ".", "t", "x", "t">> }

\* [{"a":1}]   a\n1   5   [1,
FileTexts ==
    { <<"[", "{", "\"", "a", "\"", ":", "1", "}", "]">>,
      <<"a", "\n", "1">>,
      <<"5">>,
      <<"[", "1", ",">> }

Files == {File(name, text) : name \in FileNames, text \in FileTexts}

MaxReading == 2

-----------------------------------------------------------------------------
(* Specification of the uploader: files are submitted, their reads settle    *)
(* in any order, results are reset; clearData may be called at any time      *)

InitFile ==
    /\ AnalyzerInit
    /\ legacyDate \in BOOLEAN
    /\ call = Called("useDataAnalyzer", Null)
    /\ ret = Null

\* handleFileSelect / handleDrop, and loadFile up to the await
SubmitFile(file) ==
    /\ ~HasResults
    /\ Len(reading) < MaxReading
    /\ isAnalyzing' = TRUE
    /\ error' = Null
    /\ reading' = Append(reading, file)
    /\ call' = Called("submit", file)
    /\ ret' = Null
    /\ UNCHANGED <<rawData, analysis, legacyDate>>

\* file.text() of the i-th call in flight resolves.  ret records the calls
\* made and how many calls started before this one are still in flight.
ReadDone(i) ==
    /\ i \in 1..Len(reading)
    /\ Finish(LoadFileRest(reading[i], legacyDate, rawData, analysis))
    /\ reading' = RemoveAt(reading, i)
    /\ call' = Called("loadFile", reading[i])
    /\ ret' = [t |-> "calls",
               calls |-> FileCalls(reading[i].name, JsonParse(reading[i].text) # None),
               before |-> i - 1]
    /\ UNCHANGED legacyDate

\* a rejected read whose catch block leaves the flag up
ReadFailedKeepsBusy(i) ==
    /\ i \in 1..Len(reading)
    /\ error' = Msg("NotReadableError")
    /\ reading' = RemoveAt(reading, i)
    /\ call' = Called("loadFile", reading[i])
    /\ ret' = [t |-> "calls", calls |-> <<>>, before |-> i - 1]
    /\ UNCHANGED <<rawData, analysis, isAnalyzing, legacyDate>>

\* file.text() of the i-th call in flight rejects
ReadFailed(i) ==
    /\ i \in 1..Len(reading)
    /\ error' = Msg("NotReadableError")
    /\ isAnalyzing' = FALSE
    /\ reading' = RemoveAt(reading, i)
    /\ call' = Called("loadFile", reading[i])
    /\ ret' = [t |-> "calls", calls |-> <<>>, before |-> i - 1]
    /\ UNCHANGED <<rawData, analysis, legacyDate>>

\* resetUpload: clearData()
ResetUpload ==
    /\ HasResults
    /\ rawData' = Arr(<<>>)
    /\ analysis' = Null
    /\ error' = Null
    /\ call' = Called("resetUpload", Null)
    /\ ret' = Null
    /\ UNCHANGED <<isAnalyzing, reading, legacyDate>>

NextFile ==
    \/ \E file \in Files : SubmitFile(file)
    \/ \E i \in 1..MaxReading : ReadDone(i)
    \/ \E i \in 1..MaxReading : ReadFailed(i)
    \/ ResetUpload
    \/ ClearData

SpecFile == InitFile /\ [][NextFile]_vars

-----------------------------------------------------------------------------
(* Claims about loadFile *)

\* the final state shows a run of loadCSV(text)
RanCsv(text) ==
    IF Len(Split(Trim(text), "\n")) < 2
    THEN error = Msg("No data found in CSV")
    ELSE error = Null /\ rawData = Arr(ParseCSV(text))

\* the final state shows a run of loadJSON(value), for a value no detector
\* matches or stops on
RanJson(value) ==
    (NoDetector(value) /\ IsBoxPlotStructure(value) # "throw") =>
        IF IsArr(value) THEN AcceptedAs(value)
        ELSE IF IsObj(value) THEN error = Null
        ELSE error = Msg("Invalid JSON format")

\* C12: loadFile dispatches on the lower-cased name.  A .json name goes to the
\* JSON path only, and a parse failure sets error without any CSV attempt; a
\* .csv name goes to the CSV path only; any other name tries JSON.parse and
\* runs the CSV path exactly when the parse throws.  In every branch,
\* a failed read included, the call ends with isAnalyzing false.
C12_LoadFileDispatch ==
    call.op = "loadFile" =>
        /\ ~isAnalyzing
        /\ ret.calls # <<>> =>
              LET fileName == LowerCase(call.arg.name)
                  json == JsonParse(call.arg.text)
                  calls == ret.calls
              IN  /\ IF EndsWith(fileName, SJson)
                     THEN IF json = None
                          THEN calls = <<"JSON.parse">> /\ error = Msg("SyntaxError")
                          ELSE calls = <<"JSON.parse", "loadJSON">>
                     ELSE IF EndsWith(fileName, SCsv)
                     THEN calls = <<"loadCSV">>
                     ELSE IF json = None
                          THEN calls = <<"JSON.parse", "loadCSV">>
                          ELSE calls = <<"JSON.parse", "loadJSON">>
                  /\ Last(calls) = "loadCSV" => RanCsv(call.arg.text)
                  /\ Last(calls) = "loadJSON" => RanJson(json[1])

\* a name in upper case ending in .JSON whose text is CSV: the parse failure
\* is the outcome
C12_Witness ==
    /\ call.op = "loadFile"
    /\ ~EndsWith(call.arg.name, SJson)
    /\ EndsWith(LowerCase(call.arg.name), SJson)
    /\ Len(Split(Trim(call.arg.text), "\n")) >= 2
    /\ ret.calls = <<"JSON.parse">>
    /\ error = Msg("SyntaxError")
    /\ ~isAnalyzing

\* C13: the busy flag keeps submissions from overlapping: while a loadFile
\* call awaits its read isAnalyzing is true, and no second load is started
\* through the uploader, so at most one load is in progress.
C13_OneLoadAtATime ==
    /\ Len(reading) <= 1
    /\ reading # <<>> => isAnalyzing

\* a second file was submitted while the first read had not settled
C13_TwoInFlight ==
    /\ call.op = "submit"
    /\ Len(reading) = 2
    /\ reading[2] = call.arg

\* one of two overlapping calls has ended: the flag is down, a read is pending
C13_IdleWhileReading ==
    /\ call.op = "loadFile"
    /\ reading # <<>>
    /\ ~isAnalyzing

-----------------------------------------------------------------------------
(* Claims about the shape of a field profile *)

\* the positions of vs that hold null, undefined or the empty string
NullAt(vs) == {i \in 1..Len(vs) : vs[i] = Null \/ vs[i] = Undef \/ vs[i] = Str(<<>>)}

\* C14: every profile analyzeField returns has at most 5 sample values, has
\* min and max defined only when its type is numerical, has min <= max when
\* both are defined, has one of the four types, counts in nullCount exactly
\* the null, undefined and empty-string values, and has uniqueCount at most
\* the number of the other values.
C14_ProfileShape ==
    call.op = "analyzeField" =>
        LET p == ret.profile
        IN  /\ Len(p.sampleValues) <= 5
            /\ (p.min # Undef \/ p.max # Undef) => p.type = "numerical"
            /\ (p.min # Undef /\ p.max # Undef) => p.min.n <= p.max.n
            /\ p.type \in {"numerical", "categorical", "temporal", "unknown"}
            /\ p.nullCount = Cardinality(NullAt(call.arg))
            /\ p.uniqueCount <= Len(call.arg) - Cardinality(NullAt(call.arg))

\* a column of six values with an empty string and more than one number
C14_Witness ==
    /\ call.op = "analyzeField"
    /\ Len(call.arg) = 6
    /\ \E i \in 1..6 : call.arg[i] = Str(<<>>)
    /\ ret.profile.nullCount >= 1
    /\ ret.profile.type = "numerical"
    /\ ret.profile.min # Undef
    /\ ret.profile.uniqueCount < 6 - ret.profile.nullCount

-----------------------------------------------------------------------------
(* Specification of analyzeData alone, on rows that are objects *)

Cell1 == Whole(1)
CellX == Str(CharsX)

\* {a:1}  {a:"x",b:1}  {b:1,a:1}  {b:"x"}  {}  {"1":1,a:"x"}  {a:null,c:1}
RowKinds ==
    { Obj(<<Pair(<<"a">>, Cell1)>>),
      Obj(<<Pair(<<"a">>, CellX), Pair(<<"b">>, Cell1)>>),
      Obj(<<Pair(<<"b">>, Cell1), Pair(<<"a">>, Cell1)>>),
      Obj(<<Pair(<<"b">>, CellX)>>),
      Obj(<<>>),
      Obj(<<Pair(<<"1">>, Cell1), Pair(<<"a">>, CellX)>>),
      Obj(<<Pair(<<"a">>, Null), Pair(<<"c">>, Cell1)>>) }

MaxRows == 3

InitData ==
    /\ AnalyzerInit
    /\ legacyDate \in BOOLEAN
    /\ \E rows \in Lists(RowKinds, MaxRows) : call = Pending(Arr(rows))
    /\ ret = Null

DataStep ==
    /\ call.op = "pending"
    /\ call' = Called("analyzeData", call.arg)
    /\ ret' = [t |-> "analysis", analysis |-> AnalyzeData(call.arg, legacyDate)]
    /\ UNCHANGED <<rawData, analysis, isAnalyzing, error, reading, legacyDate>>

NextData == DataStep

SpecData == InitData /\ [][NextData]_vars

\* C15: analyzeData(rows) returns rowCount = rows.length and one profile per
\* key of the first row, in that row's key order, each computed over the
\* key's value in all rows (undefined where a row lacks the key); keys of
\* later rows only are not profiled; for no rows it returns the empty analysis.
C15_AnalyzeData ==
    call.op = "analyzeData" =>
        LET rows == call.arg.a
            an == ret.analysis
            keys == [i \in 1..Len(rows[1].o) |-> rows[1].o[i][1]]
        IN  IF rows = <<>>
            THEN an = [rowCount |-> 0, fieldProfiles |-> <<>>, recommendations |-> <<>>]
            ELSE /\ an.rowCount = Len(rows)
                 /\ ProfileNames(an) = keys
                 /\ \A i \in 1..Len(keys) :
                        an.fieldProfiles[i] =
                            AnalyzeField(keys[i],
                                         [r \in 1..Len(rows) |->
                                             IF \E j \in 1..Len(rows[r].o) : rows[r].o[j][1] = keys[i]
                                             THEN (CHOOSE pr \in {rows[r].o[j] : j \in 1..Len(rows[r].o)} :
                                                       pr[1] = keys[i])[2]
                                             ELSE Undef],
                                         legacyDate)

\* the first row has key a only, a later row has b too and another a
C15_Witness ==
    /\ call.op = "analyzeData"
    /\ Len(call.arg.a) = 3
    /\ ProfileNames(ret.analysis) = << <<"a">> >>
    /\ \E r \in 2..3 : Len(call.arg.a[r].o) = 2
    /\ ret.analysis.fieldProfiles[1].uniqueCount = 2
    /\ ret.analysis.rowCount = 3

-----------------------------------------------------------------------------
(* generateRecommendations on profile lists, together with loadJSON *)

InitRecLoad ==
    \/ InitRec
    \/ Init

\* a behaviour either applies generateRecommendations to a profile list or
\* makes loadJSON calls on the composable
NextRecLoad ==
    \/ RecStep
    \/ /\ call.op \in {"useDataAnalyzer", "loadJSON"}
       /\ \E jsonData \in JsonInputs : LoadJSON(jsonData)

SpecRecLoad == InitRecLoad /\ [][NextRecLoad]_vars

\* no numerical field, not both a temporal and a categorical field, and fewer
\* than 3 profiles
NoChart(profiles) ==
    /\ \A i \in 1..Len(profiles) : profiles[i].type # "numerical"
    /\ ~ /\ \E i \in 1..Len(profiles) : profiles[i].type = "temporal"
         /\ \E i \in 1..Len(profiles) : profiles[i].type = "categorical"
    /\ Len(profiles) < 3

\* the rows loadJSON takes from a value that goes down the generic path, when
\* their analysis does not throw
GenericLoad(jsonData) ==
    /\ IsBoxPlotStructure(jsonData) = "false"
    /\ NoDetector(jsonData)
    /\ GenericRows(jsonData) # None
    /\ AnalyzeData(GenericRows(jsonData)[1], legacyDate) # Thrown

\* C16: generateRecommendations returns the empty list exactly when there is
\* no numerical field, not both a temporal and a categorical field, and fewer
\* than 3 profiles; loading a dataset with such profiles leaves error null and
\* a non-null analysis whose recommendations are empty.
C16_EmptyRecommendations ==
    /\ call.op = "generateRecommendations" => (ret.recs = <<>> <=> NoChart(call.arg))
    /\ (call.op = "loadJSON" /\ GenericLoad(call.arg)
            /\ NoChart(AnalyzeData(GenericRows(call.arg)[1], legacyDate).fieldProfiles))
        => /\ error = Null
           /\ analysis # Null
           /\ analysis.recommendations = <<>>

\* a single unknown-typed column: as profiles, and loaded from {"a": null}
C16_Witness ==
    /\ call.op = "loadJSON"
    /\ call.arg = Obj(<<Pair(<<"a">>, Null)>>)
    /\ error = Null
    /\ analysis # Null
    /\ analysis.rowCount = 1
    /\ Len(analysis.fieldProfiles) = 1
    /\ analysis.fieldProfiles[1].type = "unknown"
    /\ analysis.recommendations = <<>>

\* two categorical fields get no recommendation
C16_WitnessRec ==
    /\ call.op = "generateRecommendations"
    /\ Len(call.arg) = 2
    /\ \A i \in 1..2 : call.arg[i].type = "categorical"
    /\ ret.recs = <<>>

-----------------------------------------------------------------------------
(* Claims about single rules of generateRecommendations *)

\* the positions of the recommendations of a chart type
At(recs, type) == {i \in 1..Len(recs) : recs[i].type = type}

Count(recs, type, due) == Cardinality(At(recs, type)) = IF due THEN 1 ELSE 0

C18_RadialMetric ==
    call.op = "generateRecommendations" =>
        LET num == OfType(call.arg, "numerical")
            recs == ret.recs
            radialDue == num # <<>> /\ (num[1].isPercentage \/ num[1].uniqueCount = 1)
        IN  /\ Count(recs, "metric", num # <<>>)
            /\ Count(recs, "radialBar", radialDue)
            /\ \A i \in At(recs, "metric") :
                  /\ recs[i].confidence = "medium"
                  /\ recs[i].value = Some(num[1].name)
            /\ \A i \in At(recs, "radialBar") :
                  /\ recs[i].confidence = IF num[1].isPercentage THEN "high" ELSE "medium"
                  /\ recs[i].value = Some(num[1].name)
                  /\ i + 1 \in At(recs, "metric")

\* a single-valued field that is no percentage: a medium radialBar, then metric
C18_Witness ==
    /\ call.op = "generateRecommendations"
    /\ \E i \in At(ret.recs, "radialBar") :
          /\ ret.recs[i].confidence = "medium"
          /\ ret.recs[i + 1].type = "metric"
    /\ ~OfType(call.arg, "numerical")[1].isPercentage

\* the fields that are temporal or categorical, in field order
TemporalOrCategorical(ps) == SelectSeq(ps, LAMBDA p : p.type \in {"temporal", "categorical"})

\* rule 4 as far as it is common to both readings of its x-axis
StackedBarBut(xAxis(_, _)) ==
    call.op = "generateRecommendations" =>
        LET num == OfType(call.arg, "numerical")
            tem == OfType(call.arg, "temporal")
            cat == OfType(call.arg, "categorical")
            recs == ret.recs
        IN  /\ Count(recs, "stackedBar", Len(num) >= 2 /\ (tem # <<>> \/ cat # <<>>))
            /\ \A i \in At(recs, "stackedBar") :
                  /\ recs[i].confidence = "medium"
                  /\ recs[i].xAxis = Some(xAxis(tem, cat))
                  /\ recs[i].yAxis = Some(Names(Slice(num, 3)))

EarliestOfEither(tem, cat) == TemporalOrCategorical(call.arg)[1].name

TemporalElseCategorical(tem, cat) == IF tem # <<>> THEN tem[1].name ELSE cat[1].name

\* C19 as stated: stackedBar (medium) is emitted exactly when there are >= 2
\* numerical fields and a temporal or categorical one; xAxis is the earliest
\* field in field order whose type is temporal or categorical; yAxis is the
\* first up to 3 numerical fields.
C19_StackedEarliest == StackedBarBut(EarliestOfEither)

\* C19 amended: as stated, except that xAxis is the first temporal field when
\* there is one, and the first categorical field otherwise.
C19_StackedBar == StackedBarBut(TemporalElseCategorical)

\* a categorical field comes before the temporal one, and xAxis is the temporal
C19_Witness ==
    /\ call.op = "generateRecommendations"
    /\ TemporalOrCategorical(call.arg) # <<>>
    /\ TemporalOrCategorical(call.arg)[1].type = "categorical"
    /\ OfType(call.arg, "temporal") # <<>>
    /\ \E i \in At(ret.recs, "stackedBar") :
          /\ ret.recs[i].xAxis = Some(OfType(call.arg, "temporal")[1].name)
          /\ Len(ret.recs[i].yAxis[1]) = 3

\* C20: treemap (medium, category = first categorical, value = first
\* numerical) is emitted exactly when there is a categorical and a numerical
\* field, whatever the categorical field's uniqueCount.
C20_Treemap ==
    call.op = "generateRecommendations" =>
        LET cat == OfType(call.arg, "categorical")
            num == OfType(call.arg, "numerical")
            recs == ret.recs
        IN  /\ Count(recs, "treemap", cat # <<>> /\ num # <<>>)
            /\ \A i \in At(recs, "treemap") :
                  /\ recs[i].confidence = "medium"
                  /\ recs[i].category = Some(cat[1].name)
                  /\ recs[i].value = Some(num[1].name)

\* 31 categories: treemap without bar, pie and dotPlot
C20_Witness ==
    /\ call.op = "generateRecommendations"
    /\ OfType(call.arg, "categorical") # <<>>
    /\ OfType(call.arg, "categorical")[1].uniqueCount = 31
    /\ At(ret.recs, "treemap") # {}
    /\ At(ret.recs, "bar") \cup At(ret.recs, "pie") \cup At(ret.recs, "dotPlot") = {}

\* C21: dataGrid (low) is emitted, as the last recommendation, exactly when
\* there are >= 3 profiles of any type; its fields are the names of the first
\* 6 profiles in field order, so never more than 6.
C21_DataGrid ==
    call.op = "generateRecommendations" =>
        LET recs == ret.recs
        IN  /\ Count(recs, "dataGrid", Len(call.arg) >= 3)
            /\ \A i \in At(recs, "dataGrid") :
                  /\ i = Len(recs)
                  /\ recs[i].confidence = "low"
                  /\ recs[i].fields = [k \in 1..(IF Len(call.arg) < 6 THEN Len(call.arg) ELSE 6) |->
                                          call.arg[k].name]
                  /\ Len(recs[i].fields) <= 6

\* seven fields, an unknown-typed one among the first three: six are listed
C21_Witness ==
    /\ call.op = "generateRecommendations"
    /\ Len(call.arg) = 7
    /\ \E k \in 1..3 : call.arg[k].type = "unknown"
    /\ ret.recs # <<>>
    /\ ret.recs[Len(ret.recs)].type = "dataGrid"
    /\ Len(ret.recs[Len(ret.recs)].fields) = 6

\* three unknown-typed fields get the table and nothing else
C21_UnknownOnly ==
    /\ call.op = "generateRecommendations"
    /\ Len(call.arg) = 3
    /\ \A k \in 1..3 : call.arg[k].type = "unknown"
    /\ Len(ret.recs) = 1
    /\ ret.recs[1].type = "dataGrid"

-----------------------------------------------------------------------------
(* Specification of the tree detector and analyzeTreeStructure alone *)

KNodes == <<"n", "o", "d", "e", "s">>
KLabel == <<"l", "a", "b", "e", "l">>
KItems == <<"i", "t", "e", "m", "s">>

\* what a children array may hold: a leaf, an object without a string name,
\* null, subtrees with no child, with a number as child and with leaves two
\* levels down, a subtree whose `children` is empty beside a filled `nodes`
SubtreeKinds ==
    { Leaf(<<"c">>),
      Obj(<<Pair(<<"i", "d">>, Whole(5))>>),
      Null,
      Node(<<"c">>, <<>>),
      Node(<<"c">>, <<Whole(5)>>),
      Node(<<"c">>, <<Node(<<"d">>, <<Leaf(<<"e">>), Leaf(<<"f">>)>>)>>),
      Obj(<<Pair(KName, Str(<<"c">>)), Pair(KChildren, Arr(<<>>)),
            Pair(KNodes, Arr(<<Leaf(<<"d">>)>>))>>) }

MaxChildren == 2
MaxDepth == 3

\* the values given to the detector: objects with and without a name, with
\* one or two children-like keys, and values that are no objects
TreeInputs ==
    UNION { { Node(<<"r">>, cs),
              Obj(<<Pair(KChildren, Arr(cs))>>),
              Obj(<<Pair(KName, Whole(5)), Pair(KChildren, Arr(cs))>>),
              Obj(<<Pair(KLabel, Str(<<"r">>)), Pair(KItems, Arr(cs))>>),
              Obj(<<Pair(KName, Str(<<"r">>)), Pair(KChildren, Arr(<<>>)), Pair(KNodes, Arr(cs))>>),
              Obj(<<Pair(KName, Str(<<"r">>)), Pair(KChildren, Arr(<<Whole(5)>>)), Pair(KNodes, Arr(cs))>>),
              Obj(<<Pair(KName, Str(<<"r">>)), Pair(KChildren, Whole(5)), Pair(KNodes, Arr(cs))>>),
              Arr(cs) } : cs \in Lists(SubtreeKinds, MaxChildren) }
        \cup {Leaf(<<"r">>), Null, Str(<<"r">>)}

InitTree ==
    /\ AnalyzerInit
    /\ legacyDate \in BOOLEAN
    /\ \E data \in TreeInputs : call = Pending(data)
    /\ ret = Null

TreeStep ==
    /\ call.op = "pending"
    /\ call' = Called("isTreeStructure", call.arg)
    /\ ret' = [t |-> "tree", accepted |-> IsTreeStructure(call.arg),
               counts |-> AnalyzeTreeStructure(call.arg)]
    /\ UNCHANGED <<rawData, analysis, isAnalyzing, error, reading, legacyDate>>

NextTree == TreeStep

SpecTree == InitTree /\ [][NextTree]_vars

\* an array that holds an object with a name-like string key
HasNamedChild(v) ==
    /\ IsArr(v) /\ v.a # <<>>
    /\ \E i \in 1..Len(v.a) :
          /\ IsObj(v.a[i])
          /\ \E k \in Range(NameKeys) : IsStr(ObjGet(v.a[i], k))

\* C22: the tree detector accepts a non-array object exactly when some
\* name-like key holds a string and some children-like key holds a non-empty
\* array with a child that is an object with a name-like string key, whichever
\* children-like key that is.
C22_TreeAccepted ==
    call.op = "isTreeStructure" =>
        (ret.accepted <=>
            /\ IsObj(call.arg)
            /\ \E k \in Range(NameKeys) : IsStr(ObjGet(call.arg, k))
            /\ \E k \in Range(ChildrenKeys) : HasNamedChild(ObjGet(call.arg, k)))

\* `children` is empty, `nodes` holds a named child, and the detector refuses
C22_LaterKeyIgnored ==
    /\ call.op = "isTreeStructure"
    /\ IsObj(call.arg)
    /\ IsStr(ObjGet(call.arg, KName))
    /\ ObjGet(call.arg, KChildren) = Arr(<<>>)
    /\ HasNamedChild(ObjGet(call.arg, KNodes))
    /\ ~ret.accepted

\* with one children-like key the detector decides as the claim says
C22_OneKey ==
    (call.op = "isTreeStructure"
        /\ IsObj(call.arg)
        /\ Cardinality({k \in Range(ChildrenKeys) : IsArr(ObjGet(call.arg, k))}) <= 1)
    => (ret.accepted <=>
            /\ \E k \in Range(NameKeys) : IsStr(ObjGet(call.arg, k))
            /\ \E k \in Range(ChildrenKeys) : HasNamedChild(ObjGet(call.arg, k)))

\* the children array the traversal descends into
ChildrenOf(node) ==
    IF IsObj(node) /\ FindChildrenKey(node) # None
    THEN ObjGet(node, FindChildrenKey(node)[1]).a
    ELSE <<>>

RECURSIVE NodeAt(_, _)
\* the value reached from node by taking the path[i]-th child at step i
NodeAt(node, path) ==
    IF path = <<>> THEN node ELSE NodeAt(ChildrenOf(node)[Head(path)], Tail(path))

RECURSIVE IsVisited(_, _)
\* path leads from node through object nodes to an object node
IsVisited(node, path) ==
    /\ IsObj(node)
    /\ \/ path = <<>>
       \/ /\ Head(path) <= Len(ChildrenOf(node))
          /\ IsVisited(ChildrenOf(node)[Head(path)], Tail(path))

\* the object nodes of data, as paths from the root
Visited(data) == {path \in Lists(1..MaxChildren, MaxDepth) : IsVisited(data, path)}

Leaves(data) == {path \in Visited(data) : ChildrenOf(NodeAt(data, path)) = <<>>}

\* analyzeTreeStructure but for the bound on leafCount of accepted inputs
TreeCounts ==
    call.op = "isTreeStructure" =>
        LET data == call.arg
            counts == ret.counts
        IN  /\ counts.nodeCount = Cardinality(Visited(data))
            /\ counts.leafCount = Cardinality(Leaves(data))
            /\ counts.depth = (IF Visited(data) = {} THEN 0
                               ELSE Max({Len(path) : path \in Visited(data)}))
            /\ counts.leafCount <= counts.nodeCount
            /\ ret.accepted => counts.nodeCount >= 2 /\ counts.depth >= 1

\* C23 as stated: nodeCount is the number of object nodes the traversal
\* visits, leafCount the number of those with no children array or an empty
\* one, depth the largest distance of a visited node from the root;
\* leafCount <= nodeCount; for an accepted input nodeCount >= 2, depth >= 1
\* and leafCount >= 1.
C23_TreeCountsLeaf ==
    /\ TreeCounts
    /\ (call.op = "isTreeStructure" /\ ret.accepted) => ret.counts.leafCount >= 1

\* C23 amended: as stated, without leafCount >= 1 for accepted inputs, which
\* holds when every visited node's non-empty children array holds an object.
C23_TreeCounts ==
    /\ TreeCounts
    /\ (call.op = "isTreeStructure" /\ ret.accepted
            /\ \A path \in Visited(call.arg) :
                  LET cs == ChildrenOf(NodeAt(call.arg, path))
                  IN  cs = <<>> \/ \E i \in 1..Len(cs) : IsObj(cs[i]))
        => ret.counts.leafCount >= 1

\* an accepted tree whose only child holds a number as its only child: two
\* nodes, depth 1, no leaf
C23_Witness ==
    /\ call.op = "isTreeStructure"
    /\ ret.accepted
    /\ ret.counts = [nodeCount |-> 2, leafCount |-> 0, depth |-> 1]

\* a tree of depth 3 with two leaves at the bottom
C23_Deep ==
    /\ call.op = "isTreeStructure"
    /\ ret.accepted
    /\ ret.counts.depth = 3
    /\ ret.counts.leafCount >= 2

-----------------------------------------------------------------------------
(* Claims about the tree path of loadJSON *)

\* analysis.isTreeStructure is true
TreeFlag(an) == an # Null /\ "isTreeStructure" \in DOMAIN an /\ an.isTreeStructure

\* the call is a loadJSON that reaches the tree detector and is accepted by it
ByTreeDetector(c) ==
    /\ c.op = "loadJSON"
    /\ IsBoxPlotStructure(c.arg) = "false"
    /\ ~IsAdmixtureStructure(c.arg)
    /\ IsTreeStructure(c.arg)

\* a step in which a load call stores a new analysis
Produces == call'.op \in {"loadJSON", "loadCSV"} /\ error' = Null

TreeFlagStep ==
    /\ Produces =>
          /\ analysis' # Null
          /\ TreeFlag(analysis') <=> ByTreeDetector(call')
          /\ TreeFlag(analysis') =>
                /\ ProfileNames(analysis') = <<KName, KChildren>>
                /\ Summary(analysis') = << <<"phylogenetic", "high">>, <<"treemap", "medium">> >>
                /\ analysis'.rowCount = Cardinality(Visited(call'.arg))
    /\ ~Produces => (analysis' = analysis \/ analysis' = Null)

\* C24: after any sequence of loads analysis.isTreeStructure is true exactly
\* when the current analysis was produced by the tree detector; then it has
\* exactly the profiles name and children, the recommendations phylogenetic
\* (high), treemap (medium) in that order, and rowCount = the tree's
\* nodeCount.  Box-plot, admixture and tabular analyses never carry the flag.
C24_TreeFlag == [][TreeFlagStep]_vars

\* a tree has been loaded and a failed load after it has left its analysis
C24_Witness ==
    /\ TreeFlag(analysis)
    /\ analysis.rowCount >= 3
    /\ call.op = "loadJSON"
    /\ ~ByTreeDetector(call)
    /\ error # Null

\* a tabular analysis, without the flag, replaces nothing or a tree's analysis
C24_Tabular ==
    /\ call.op = "loadCSV"
    /\ error = Null
    /\ analysis # Null
    /\ ~TreeFlag(analysis)

-----------------------------------------------------------------------------
(* Claims about the box-plot and admixture detectors *)

\* an entry { x, y: [5 numbers] }
IsBox(entry) == IsObj(entry) /\ HasOwn(entry, KX) /\ FiveNumbers(ObjGet(entry, KY))

\* every entry has the box-plot shape, in the series format or the flat one
AllBoxes(data) ==
    /\ IsArr(data) /\ data.a # <<>>
    /\ \/ /\ IsObj(data.a[1])
          /\ ObjGet(data.a[1], KType) = Str(SBoxPlot)
          /\ IsArr(ObjGet(data.a[1], KData))
          /\ \A i \in 1..Len(ObjGet(data.a[1], KData).a) : IsBox(ObjGet(data.a[1], KData).a[i])
       \/ \A i \in 1..Len(data.a) : IsBox(data.a[i])

\* C25: the box-plot detector accepts an input only when its entries all have
\* the box-plot shape; an array whose first entry is well-formed but a later
\* entry lacks x or has a y that is not 5 numbers is not classified as box-plot.
C25_AllBoxes ==
    (call.op = "loadJSON" /\ IsBoxPlotResult) => AllBoxes(call.arg)

\* [{x: "A", y: [1,2,3,4,5]}, {a: 1}] is loaded as a box plot of 2 boxes
C25_FirstEntryOnly ==
    /\ call.op = "loadJSON"
    /\ call.arg = Arr(<<BoxItem, RowItem>>)
    /\ IsBoxPlotResult
    /\ analysis.rowCount = 2

-----------------------------------------------------------------------------
(* Specification of the admixture detector on series-format arrays, followed  *)
(* by loadJSON of the same value on a new analyzer                            *)

SK2 == <<"K", "2">>
SQ == <<"q">>

\* data arrays whose column sums fall on both sides of 1 +- 0.15 and 100 +- 10
\* (0.5 + 0.35, 0.5 + 0.36, 0.5 + 0.64, 0.5 + 0.66, 50 + 40, 50 + 41, 50 + 59,
\* 50 + 60), an empty one, one of two columns and one that holds a string
SeriesData ==
    { <<Num(50)>>, <<Num(35)>>, <<Num(36)>>, <<Num(64)>>, <<Num(66)>>,
      <<Whole(50)>>, <<Whole(40)>>, <<Whole(41)>>, <<Whole(59)>>, <<Whole(60)>>,
      <<>>, <<Num(50), Whole(50)>>, <<Str(SQ)>> }

\* series with a plain name and with a cluster-like one, an item without a
\* string name, a box that is also a series, a series typed as box plot
SeriesKinds ==
    {Series(n, d) : n \in {SQ, SK2}, d \in SeriesData}
        \cup { Obj(<<Pair(KData, Arr(<<Num(50)>>))>>),
               Obj(<<Pair(KName, Whole(5)), Pair(KData, Arr(<<Num(50)>>))>>),
               BoxSeriesItem,
               Obj(<<Pair(KName, Str(SK2)), Pair(KType, Str(SBoxPlot)),
                     Pair(KData, Arr(<<Num(50)>>))>>),
               Null }

MaxSeries == 2

InitAdmix ==
    /\ AnalyzerInit
    /\ legacyDate \in BOOLEAN
    /\ \E items \in Lists(SeriesKinds, MaxSeries) : call = Pending(Arr(items))
    /\ ret = Null

AdmixStep ==
    /\ call.op = "pending"
    /\ call' = Called("isAdmixtureStructure", call.arg)
    /\ ret' = [t |-> "admix", accepted |-> IsAdmixtureStructure(call.arg)]
    /\ UNCHANGED <<rawData, analysis, isAnalyzing, error, reading, legacyDate>>

AdmixLoadStep ==
    /\ call.op = "isAdmixtureStructure"
    /\ Finish(LoadJson(call.arg, legacyDate, rawData, analysis))
    /\ call' = Called("loadJSON", call.arg)
    /\ UNCHANGED <<reading, legacyDate, ret>>

NextAdmix ==
    \/ AdmixStep
    \/ AdmixLoadStep

SpecAdmix == InitAdmix /\ [][NextAdmix]_vars

\* the data array of a series item
DataOf(item) == ObjGet(item, KData).a

\* every item has a string name and a data array of numbers
NamedSeries(items) ==
    \A i \in 1..Len(items) :
        /\ IsObj(items[i])
        /\ IsStr(ObjGet(items[i], KName))
        /\ IsArr(ObjGet(items[i], KData))
        /\ \A k \in 1..Len(DataOf(items[i])) : DataOf(items[i])[k].t = "num"

\* the sum of column k over the items, in hundredths
ColumnSum(items, k) ==
    LET Upto[i \in 0..Len(items)] ==
            IF i = 0 THEN 0 ELSE Upto[i - 1] + DataOf(items[i])[k].n
    IN  Upto[Len(items)]

\* less than 0.15 from 1 or less than 10 from 100
Proportion(sum) ==
    \/ (sum > 85 /\ sum < 115)
    \/ (sum > 90 * Scale /\ sum < 110 * Scale)

\* the conditions of the series format; withData adds that no data array is empty
SeriesAccepted(items, withData) ==
    /\ Len(items) >= 2
    /\ NamedSeries(items)
    /\ withData => \A i \in 1..Len(items) : DataOf(items[i]) # <<>>
    /\ \A i \in 1..Len(items) : Len(DataOf(items[i])) = Len(DataOf(items[1]))
    /\ \/ \E i \in 1..Len(items) : IsClusterName(ObjGet(items[i], KName).s)
       \/ \A k \in 1..Len(DataOf(items[1])) : Proportion(ColumnSum(items, k))

\* the analysis of the admixture path for the series items
AdmixtureResult(items) ==
    /\ error = Null
    /\ analysis # Null
    /\ analysis.rowCount = Len(DataOf(items[1]))
    /\ Summary(analysis) = << <<"admixture", "high">>, <<"stackedBar", "medium">> >>

\* C26 as stated: a series-format array is accepted exactly when it has >= 2
\* items, every item has a string name and a numeric data array, all data
\* arrays have equal length, and a name is cluster-like or every column sum is
\* near 1 or 100; on acceptance the analysis has rowCount = the data length
\* and recommendations admixture (high), stackedBar (medium).
C26_SeriesAsStated ==
    /\ call.op \in {"isAdmixtureStructure", "loadJSON"}
          => (ret.accepted <=> SeriesAccepted(call.arg.a, FALSE))
    /\ (call.op = "loadJSON" /\ ret.accepted) => AdmixtureResult(call.arg.a)

\* C26 amended: as stated, with every data array non-empty among the
\* conditions, the sums strictly less than 0.15 from 1 or 10 from 100, and the
\* analysis that of the admixture path when the box-plot test, which loadJSON
\* makes first, has answered false.
C26_Series ==
    /\ call.op \in {"isAdmixtureStructure", "loadJSON"}
          => (ret.accepted <=> SeriesAccepted(call.arg.a, TRUE))
    /\ (call.op = "loadJSON" /\ ret.accepted /\ IsBoxPlotStructure(call.arg) = "false")
          => AdmixtureResult(call.arg.a)

\* two series without a cluster-like name whose one column sums to 109
C26_Witness ==
    /\ call.op = "loadJSON"
    /\ ret.accepted
    /\ Len(call.arg.a) = 2
    /\ \A i \in 1..2 : ObjGet(call.arg.a[i], KName) = Str(SQ)
    /\ ColumnSum(call.arg.a, 1) = 109 * Scale
    /\ AdmixtureResult(call.arg.a)

\* cluster-like names over empty data arrays are refused
C26_EmptyData ==
    /\ call.op = "isAdmixtureStructure"
    /\ SeriesAccepted(call.arg.a, FALSE)
    /\ ~ret.accepted

\* accepted by the admixture detector, loaded as a box plot
C26_BoxFirst ==
    /\ call.op = "loadJSON"
    /\ ret.accepted
    /\ IsBoxPlotStructure(call.arg) = "true"
    /\ IsBoxPlotResult

-----------------------------------------------------------------------------
(* Claims about the busy flag.  The promise of file.text() settles: every    *)
(* read in flight resolves or rejects after finitely many steps.             *)

\* the read of some call in flight settles, by ReadDone or ReadFailed: the
\* call leaves the calls in flight
Settle == \E i \in 1..Len(reading) : reading' = RemoveAt(reading, i)

SpecFileFair == SpecFile /\ WF_reading(Settle)

\* C27: whenever no load call is in progress isAnalyzing is false; every
\* completion of a loadFile call (success, failed read, failed parse) leaves
\* isAnalyzing false, in any interleaving of overlapping calls; and a call in
\* flight is followed by a completion, a raised flag by a lowered one.
C27_Idle ==
    /\ [](reading = <<>> => ~isAnalyzing)
    /\ [][Len(reading') < Len(reading) => ~isAnalyzing']_vars
    /\ (reading # <<>>) ~> (call.op = "loadFile" /\ ~isAnalyzing)
    /\ isAnalyzing ~> ~isAnalyzing

\* the read of the second of two overlapping calls has failed after the first
\* call ended: nothing is in flight and the flag is down
C27_Witness ==
    /\ call.op = "loadFile"
    /\ ret.calls = <<>>
    /\ reading = <<>>
    /\ error = Msg("NotReadableError")
    /\ ~isAnalyzing

\* the synchronous loads return with the flag down
C27_SyncLoads == call.op \in {"loadJSON", "loadCSV"} => ~isAnalyzing

-----------------------------------------------------------------------------
(* Claims about rawData and analysis as a pair *)

\* C28: rawData and analysis are written together: a step changes either of
\* them only by storing both in a load that succeeds or by clearing both, so
\* analysis is null with rawData empty or is the analysis of the input that
\* rawData holds.
C28_WrittenTogether ==
    /\ [](analysis = Null => rawData = Arr(<<>>))
    /\ [][<<rawData, analysis>>' # <<rawData, analysis>> =>
             \/ rawData' = Arr(<<>>) /\ analysis' = Null
             \/ error' = Null /\ analysis' # Null /\ call'.op \in {"loadJSON", "loadCSV"}]_vars

\* rows with a null row have been stored and their analysis has thrown: the
\* analysis shown is still that of the rows loaded before
C28_Mixed ==
    /\ call.op = "loadJSON"
    /\ rawData = call.arg
    /\ rawData = Arr(<<RowItem, Null>>)
    /\ error = Msg("TypeError")
    /\ analysis # Null
    /\ analysis.rowCount # 2

-----------------------------------------------------------------------------
(* Claims about overlapping loadFile calls *)

\* what the consumer sees
Visible == <<rawData, analysis, error>>

\* a call completes right after a call that started later than it: the call
\* completed before had `before` earlier calls in flight, this one is among them
EarlierCompletesLast ==
    /\ call.op = "loadFile"
    /\ call'.op = "loadFile"
    /\ Len(reading') < Len(reading)
    /\ ret'.before < ret.before

\* C29: when two loadFile calls overlap, the visible state after both have
\* completed is the outcome of the call started last: the completion of the
\* earlier-started call, when it comes second, changes nothing of it.
C29_LastStartedWins == [][EarlierCompletesLast => Visible' = Visible]_vars

\* two calls overlapped, one for a file holding 5 and one for a table; the
\* read of the first settled last: its error is shown beside the other's rows
C29_EarlierOverwrites ==
    /\ call.op = "loadFile"
    /\ reading = <<>>
    /\ call.arg.text = <<"5">>
    /\ ret.calls = <<"JSON.parse", "loadJSON">>
    /\ error = Msg("Invalid JSON format")
    /\ analysis # Null
    /\ analysis.rowCount = 1

-----------------------------------------------------------------------------
(* Claims about clearData *)

\* analysis.value?.recommendations || []
suggestedCharts == IF analysis = Null THEN <<>> ELSE analysis.recommendations

\* analysis.value?.fieldProfiles || []
fieldProfiles == IF analysis = Null THEN <<>> ELSE analysis.fieldProfiles

\* C30: clearData, called in any state, sets rawData to the empty list,
\* analysis and error to null and leaves isAnalyzing (and the calls in flight)
\* unchanged; afterwards suggestedCharts and fieldProfiles are empty, and a
\* second clearData changes nothing.
C30_ClearData ==
    /\ [](call.op = "clearData" =>
             /\ rawData = Arr(<<>>)
             /\ analysis = Null
             /\ error = Null
             /\ suggestedCharts = <<>>
             /\ fieldProfiles = <<>>)
    /\ [][call'.op = "clearData" =>
             /\ isAnalyzing' = isAnalyzing
             /\ reading' = reading
             /\ call.op = "clearData" => UNCHANGED vars]_vars

\* clearData was called while two loadFile calls awaited their reads: the flag
\* is still up
C30_Witness ==
    /\ call.op = "clearData"
    /\ isAnalyzing
    /\ Len(reading) = 2
    /\ rawData = Arr(<<>>) /\ analysis = Null /\ error = Null

=============================================================================
